---- MODULE Spec2Model ----
(***************************************************************************)
(* A model of the eisy circuit engine: the circuit-text parser             *)
(* (core/parsing.py), the tree evaluator and element library               *)
(* (core/parsing.py, core/elements.py), the parameter codec inside         *)
(* CircuitNode.fit and the model selector (core/fitting.py).               *)
(*                                                                         *)
(* Text is a sequence of one-character strings.  A parse result is a       *)
(* record: an element node, a series node, a parallel node, or the         *)
(* exception the call raised.                                              *)
(***************************************************************************)
EXTENDS Integers, Sequences, FiniteSets, TLC

VARIABLES
    text,       \* the circuit text
    result,     \* what parse_circuit(text) returned or raised
    circuit,    \* the tree being evaluated
    values,     \* params: the parameter mapping handed to impedance
    freq,       \* the frequency argument: one float or an array of floats
    Z,          \* what impedance returned or raised
    mapping,    \* params: the parameter mapping handed to fit, in insertion order
    given,      \* the mapping as it was when fit was called
    flat,       \* p0, lower_bounds, upper_bounds and structure built by fit
    rebuilt,    \* param_dict of the first call of model_wrapper
    fitted,     \* what fit returned or raised
    shared,     \* one tree fitted by concurrent calls, each with its own mapping
    models,     \* the candidates handed to best_model
    heap,       \* the parameter mappings the candidates refer to
    sel,        \* the locals of best_model, its log and what it returned
    registry,   \* the warnings already shown from best_model (texts)
    web,        \* a mapping converted between the nested and the flat UI form
    api         \* a request to /api/fit_models: the locals of the handler, its response

parseVars == <<text, result>>
evalVars == <<circuit, values, freq, Z>>
fitVars == <<mapping, given, flat, rebuilt, fitted, shared>>
selectVars == <<models, heap, sel, registry>>
webVars == <<web, api>>
vars == <<text, result, circuit, values, freq, Z, mapping, given, flat, rebuilt, fitted, shared,
          models, heap, sel, registry, web, api>>

(***************************************************************************)
(* Bounds of the model.                                                    *)
(***************************************************************************)
\* Longest circuit text built by typing one character at a time.
MaxLen == 5

(***************************************************************************)
(* Strings.                                                                *)
(***************************************************************************)
\* The characters of this module are ASCII.  Those str.strip() removes:
\* space, tab, line feed, carriage return, form feed, U+000B and U+001C to
\* U+001F.
Whitespace ==
    {" ", "\t", "\n", "\r", "\f", "", "", "", "", ""}

\* str.strip(): drop leading and trailing whitespace.
RECURSIVE LStrip(_)
LStrip(s) == IF s # <<>> /\ Head(s) \in Whitespace THEN LStrip(Tail(s)) ELSE s

RECURSIVE RStrip(_)
RStrip(s) ==
    IF s # <<>> /\ s[Len(s)] \in Whitespace THEN RStrip(SubSeq(s, 1, Len(s) - 1)) ELSE s

strip(s) == RStrip(LStrip(s))

\* c in s
Contains(s, c) == \E i \in 1..Len(s) : s[i] = c

(***************************************************************************)
(* Nodes and raised exceptions.                                            *)
(***************************************************************************)
ElementNode(kind, tag, name) ==
    [type |-> "element", kind |-> kind, tag |-> tag, name |-> name]

SeriesNode(children) == [type |-> "series", children |-> children]

ParallelNode(children) == [type |-> "parallel", children |-> children]

Raise(exc, arg) == [type |-> "error", error |-> exc, arg |-> arg]

IsError(r) == r.type = "error"

IsTree(r) == r.type \in {"element", "series", "parallel"}

\* str(element): the tag followed by the name; the key into the parameters.
ElementKey(node) == <<node.tag>> \o node.name

(***************************************************************************)
(* _create_element_node: tag = first character, identifier = the rest.     *)
(* Indexing the empty string raises IndexError; a tag outside R, C, L, W,  *)
(* Q raises ValueError.                                                    *)
(***************************************************************************)
_create_element_node(element_str) ==
    LET s == strip(element_str) IN
    IF s = <<>> THEN Raise("IndexError", <<>>)
    ELSE LET element_type == Head(s)
             element_id == Tail(s)
         IN CASE element_type = "R" -> ElementNode("Resistor", "R", element_id)
              [] element_type = "C" -> ElementNode("Capacitor", "C", element_id)
              [] element_type = "L" -> ElementNode("Inductor", "L", element_id)
              [] element_type = "W" -> ElementNode("Warburg", "W", element_id)
              [] element_type = "Q" -> ElementNode("CPE", "Q", element_id)
              [] OTHER -> Raise("ValueError", <<element_type>>)

(***************************************************************************)
(* _split_by_operator: one pass over the characters, tracking the          *)
(* parenthesis depth; an operator at depth 0 closes the current part.      *)
(* The last part is appended only when it holds at least one character.    *)
(***************************************************************************)
RECURSIVE SplitLoop(_, _, _, _, _, _)
SplitLoop(string, operator, i, parts, current, depth) ==
    IF i > Len(string)
    THEN IF current # <<>> THEN Append(parts, strip(current)) ELSE parts
    ELSE LET char == string[i] IN
         IF char = "("
         THEN SplitLoop(string, operator, i + 1, parts, Append(current, char), depth + 1)
         ELSE IF char = ")"
         THEN SplitLoop(string, operator, i + 1, parts, Append(current, char), depth - 1)
         ELSE IF char = operator /\ depth = 0
         THEN SplitLoop(string, operator, i + 1, Append(parts, strip(current)), <<>>, depth)
         ELSE SplitLoop(string, operator, i + 1, parts, Append(current, char), depth)

_split_by_operator(string, operator) == SplitLoop(string, operator, 1, <<>>, <<>>, 0)

(***************************************************************************)
(* The scan of _parse_with_parentheses: the positions (0-based, -1 when    *)
(* absent) of the first '|' and the first '-' met at depth 0.              *)
(***************************************************************************)
RECURSIVE ScanLoop(_, _, _, _, _)
ScanLoop(string, i, depth, parallel_pos, series_pos) ==
    IF i > Len(string)
    THEN [parallel_pos |-> parallel_pos, series_pos |-> series_pos]
    ELSE LET char == string[i] IN
         IF char = "("
         THEN ScanLoop(string, i + 1, depth + 1, parallel_pos, series_pos)
         ELSE IF char = ")"
         THEN ScanLoop(string, i + 1, depth - 1, parallel_pos, series_pos)
         ELSE IF depth = 0
         THEN IF char = "|" /\ parallel_pos = -1
              THEN ScanLoop(string, i + 1, depth, i - 1, series_pos)
              ELSE IF char = "-" /\ series_pos = -1
              THEN ScanLoop(string, i + 1, depth, parallel_pos, i - 1)
              ELSE ScanLoop(string, i + 1, depth, parallel_pos, series_pos)
         ELSE ScanLoop(string, i + 1, depth, parallel_pos, series_pos)

main_operator(string) == ScanLoop(string, 1, 0, -1, -1)

\* The first exception among the children, in list order, if any.
FirstError(children) ==
    LET bad == {i \in 1..Len(children) : IsError(children[i])}
    IN children[CHOOSE i \in bad : \A j \in bad : i <= j]

AnyError(children) == \E i \in 1..Len(children) : IsError(children[i])

(***************************************************************************)
(* parse_circuit and _parse_with_parentheses.  A recursive call whose      *)
(* argument is the string being parsed never returns: Python ends it with  *)
(* RecursionError.                                                         *)
(***************************************************************************)
RECURSIVE parse_circuit(_)
RECURSIVE _parse_with_parentheses(_)

\* [parse_circuit(part) for part in parts], then the composite node.
parse_parts(string, parts, shape) ==
    IF \E i \in 1..Len(parts) : parts[i] = string
    THEN Raise("RecursionError", <<>>)
    ELSE LET children == [i \in 1..Len(parts) |-> parse_circuit(parts[i])] IN
         IF AnyError(children) THEN FirstError(children)
         ELSE IF shape = "series" THEN SeriesNode(children)
         ELSE ParallelNode(children)

\* parse_circuit testing '|' before '-'.
parse_circuit_parallel_first(str) ==
    LET string == strip(str) IN
    IF Contains(string, "(") THEN _parse_with_parentheses(string)
    ELSE IF Contains(string, "|")
    THEN parse_parts(string, _split_by_operator(string, "|"), "parallel")
    ELSE IF Contains(string, "-")
    THEN parse_parts(string, _split_by_operator(string, "-"), "series")
    ELSE _create_element_node(string)

parse_circuit(str) ==
    LET string == strip(str) IN
    IF Contains(string, "(") THEN _parse_with_parentheses(string)
    ELSE IF Contains(string, "-")
    THEN parse_parts(string, _split_by_operator(string, "-"), "series")
    ELSE IF Contains(string, "|")
    THEN parse_parts(string, _split_by_operator(string, "|"), "parallel")
    ELSE _create_element_node(string)

_parse_with_parentheses(string) ==
    LET pos == main_operator(string) IN
    IF pos.series_pos # -1
    THEN parse_parts(string, _split_by_operator(string, "-"), "series")
    ELSE IF pos.parallel_pos # -1
    THEN parse_parts(string, _split_by_operator(string, "|"), "parallel")
    ELSE IF string # <<>> /\ Head(string) = "(" /\ string[Len(string)] = ")"
    THEN IF Len(string) = 1 THEN _create_element_node(string)
         ELSE parse_circuit(SubSeq(string, 2, Len(string) - 1))
    ELSE _create_element_node(string)

(***************************************************************************)
(* Numbers.  The engine computes in IEEE-754 binary64 (Python float and    *)
(* numpy float64).  A natural number of any size is a little-endian        *)
(* sequence of limbs in base 2^14 without leading zero limbs; a float is   *)
(* zero, infinite, not-a-number, or (-1)^s * m * 2^e with m < 2^53.        *)
(***************************************************************************)
LimbBits == 14
Base == 16384

\* 2^n for n <= LimbBits
Pow2(n) == <<1, 2, 4, 8, 16, 32, 64, 128, 256, 512, 1024, 2048, 4096, 8192, 16384>>[n + 1]

\* a without its leading zero limbs
\* The limbs f[1], ..., f[Len(f)] as a tuple.
Limbs(f) == SubSeq(f, 1, Len(f))

BTrim(a) ==
    IF \A i \in 1..Len(a) : a[i] = 0 THEN <<>>
    ELSE SubSeq(a, 1, CHOOSE i \in 1..Len(a) : a[i] # 0 /\ \A j \in (i + 1)..Len(a) : a[j] = 0)

BLimb(a, i) == IF i <= Len(a) THEN a[i] ELSE 0

\* The carry into limb i of a + b: some lower limb overflows and every limb
\* between passes the carry on.
BCarry(a, b, i) ==
    IF \E j \in 1..(i - 1) :
           /\ BLimb(a, j) + BLimb(b, j) >= Base
           /\ \A k \in (j + 1)..(i - 1) : BLimb(a, k) + BLimb(b, k) = Base - 1
    THEN 1 ELSE 0

BAdd(a, b) ==
    BTrim(Limbs([i \in 1..((IF Len(a) >= Len(b) THEN Len(a) ELSE Len(b)) + 1) |->
                     (BLimb(a, i) + BLimb(b, i) + BCarry(a, b, i)) % Base]))

\* The borrow from limb i of a - b.
BBorrow(a, b, i) ==
    IF \E j \in 1..(i - 1) :
           /\ BLimb(a, j) < BLimb(b, j)
           /\ \A k \in (j + 1)..(i - 1) : BLimb(a, k) = BLimb(b, k)
    THEN 1 ELSE 0

\* a - b for a >= b
BSub(a, b) ==
    BTrim(Limbs([i \in 1..Len(a) |-> (a[i] - BLimb(b, i) - BBorrow(a, b, i) + Base) % Base]))

\* -1, 0, 1 as a < b, a = b, a > b
BCmp(a, b) ==
    IF Len(a) < Len(b) THEN -1
    ELSE IF Len(a) > Len(b) THEN 1
    ELSE IF a = b THEN 0
    ELSE LET top == CHOOSE i \in 1..Len(a) :
                        a[i] # b[i] /\ \A j \in (i + 1)..Len(a) : a[j] = b[j]
         IN IF a[top] < b[top] THEN -1 ELSE 1

\* a * k for 0 <= k <= Base
BMulSmall(a, k) ==
    IF k = 0 THEN <<>>
    ELSE BAdd(Limbs([i \in 1..Len(a) |-> (a[i] * k) % Base]),
              <<0>> \o [i \in 1..Len(a) |-> (a[i] * k) \div Base])

BShiftLimbs(a, n) == IF a = <<>> THEN <<>> ELSE [i \in 1..n |-> 0] \o a

\* The sum of the products a[i] * b[j] with i + j = k + 1, from limb i of a on.
RECURSIVE BColumn(_, _, _, _)
BColumn(a, b, k, i) ==
    IF i > Len(a) \/ i > k THEN 0
    ELSE a[i] * BLimb(b, k + 1 - i) + BColumn(a, b, k, i + 1)

\* a * b for factors of which one has at most seven limbs
BMul(a, b) ==
    LET c == Limbs([k \in 1..(Len(a) + Len(b)) |-> BColumn(a, b, k, 1)])
    IN BAdd(BAdd(Limbs([k \in 1..Len(c) |-> c[k] % Base]),
                 <<0>> \o [k \in 1..Len(c) |-> (c[k] \div Base) % Base]),
            <<0, 0>> \o [k \in 1..Len(c) |-> c[k] \div (Base * Base)])

\* a * 2^n
BShl(a, n) == BShiftLimbs(BMulSmall(a, Pow2(n % LimbBits)), n \div LimbBits)

\* The limbs of a from limb n + 1 on.
BDropLimbs(a, n) == IF n >= Len(a) THEN <<>> ELSE SubSeq(a, n + 1, Len(a))

\* floor(a / 2^s) for s < LimbBits
BShrBits(a, s) ==
    BTrim(Limbs([i \in 1..Len(a) |->
                     a[i] \div Pow2(s) + (BLimb(a, i + 1) % Pow2(s)) * Pow2(LimbBits - s)]))

\* floor(a / 2^n)
BShr(a, n) == BShrBits(BDropLimbs(a, n \div LimbBits), n % LimbBits)

\* a mod 2^n is not zero
BLowBits(a, n) ==
    \/ \E i \in 1..Len(a) : i <= n \div LimbBits /\ a[i] # 0
    \/ /\ n \div LimbBits < Len(a)
       /\ a[n \div LimbBits + 1] % Pow2(n % LimbBits) # 0

BBit(a, i) ==
    IF i \div LimbBits >= Len(a) THEN 0
    ELSE (a[i \div LimbBits + 1] \div Pow2(i % LimbBits)) % 2

\* The number of bits of a limb.
SmallBitLen(k) ==
    IF k = 0 THEN 0 ELSE CHOOSE n \in 1..LimbBits : Pow2(n - 1) <= k /\ k < Pow2(n)

BBitLen(a) == IF a = <<>> THEN 0 ELSE (Len(a) - 1) * LimbBits + SmallBitLen(a[Len(a)])

BFromInt(n) == IF n = 0 THEN <<>> ELSE BTrim(<<n % Base, (n \div Base) % Base, n \div (Base * Base)>>)

\* The greatest acc + k * w, k < 4, with (acc + k * w) * den <= r.
BStage(r, den, acc, w) ==
    acc + w * Cardinality({k \in 1..3 : BCmp(BMulSmall(den, acc + k * w), r) <= 0})

\* The greatest digit d < Base with d * den <= r, found two bits at a time
\* from the weight w down, acc being the bits found so far.
RECURSIVE BDigit(_, _, _, _)
BDigit(r, den, w, acc) ==
    IF w = 0 \/ acc >= Base THEN acc
    ELSE BDigit(r, den, w \div 4, BStage(r, den, acc, w))

\* One step of the long division: the digit d brought to the quotient q and
\* the remainder left of r2.
BDivNext(q, r2, den, d) == [q |-> <<d>> \o q, r |-> BSub(r2, BMulSmall(den, d))]

BDivDigit(q, r2, den) ==
    BDivNext(q, r2, den, IF BCmp(r2, den) < 0 THEN 0 ELSE BDigit(r2, den, Base \div 4, 0))

\* The next limb of the numerator brought down to the remainder of the
\* limbs above it.
BDivStep(above, limb, den) ==
    IF above.r = <<>> /\ limb = 0 THEN [q |-> <<0>> \o above.q, r |-> <<>>]
    ELSE BDivDigit(above.q, BTrim(<<limb>> \o above.r), den)

\* Long division, one limb of the numerator at a time from the most
\* significant: the quotient and the remainder of the limbs i and above.
RECURSIVE BDivLoop(_, _, _)
BDivLoop(num, den, i) ==
    IF i > Len(num) THEN [q |-> <<>>, r |-> <<>>]
    ELSE BDivStep(BDivLoop(num, den, i + 1), num[i], den)

BDivResult(all) == [q |-> BTrim(all.q), inexact |-> all.r # <<>>]

\* The quotient and whether a remainder is left.
BDiv(num, den) == BDivResult(BDivLoop(num, den, 1))

(***************************************************************************)
(* binary64.  A finite non-zero float is (-1)^s * m * 2^e, normal with     *)
(* 2^52 <= m < 2^53 and e >= EMin, or subnormal with m < 2^52 and          *)
(* e = EMin.  Results are rounded to nearest, ties to even.                *)
(***************************************************************************)
Precision == 53
EMin == -1074
EMax == 971

FZero(s) == [c |-> "zero", s |-> s, m |-> <<>>, e |-> 0]
FInf(s) == [c |-> "inf", s |-> s, m |-> <<>>, e |-> 0]
FNaN == [c |-> "nan", s |-> 0, m |-> <<>>, e |-> 0]
FFin(s, m, e) == [c |-> "fin", s |-> s, m |-> m, e |-> e]

Max(x, y) == IF x >= y THEN x ELSE y
Min(x, y) == IF x <= y THEN x ELSE y

(***************************************************************************)
(* The arithmetic is gathered in one recursive operator, Arith (defined    *)
(* after the evaluator), so that each operation is defined once however    *)
(* deep the expression that uses it; the operators named here apply it.    *)
(*                                                                         *)
(* Complex numbers are pairs of doubles.  A scalar frequency is evaluated  *)
(* with Python's complex arithmetic, whose division raises                 *)
(* ZeroDivisionError on a zero divisor; an array of frequencies is         *)
(* evaluated element by element with numpy's arithmetic, whose division    *)
(* gives infinities and NaNs instead.                                      *)
(*                                                                         *)
(* FLibm stands for a finite non-zero double whose digits are decided by   *)
(* the C library (a fractional power, a square root).  It is met only     *)
(* with zero, with numbers far from the ends of the double range (the      *)
(* parameters bound beside it and the frequencies lie between 1e-6 and     *)
(* 1000) and with infinities and NaNs: arithmetic on it and such a finite  *)
(* non-zero number gives another such value.                               *)
(***************************************************************************)
RECURSIVE Arith(_, _)

\* The float nearest to (-1)^s * M * 2^E (a little more when sticky).
Round(s, M, E, sticky) == Arith("Round", <<s, M, E, sticky>>)

\* -1, 0, 1 for the magnitudes of two finite or zero floats
MagCmp(x, y) == Arith("MagCmp", <<x, y>>)

\* x < y; false when either is not a number
FLt(x, y) == Arith("FLt", <<x, y>>)

FAdd(x, y) == Arith("FAdd", <<x, y>>)

FMul(x, y) == Arith("FMul", <<x, y>>)

\* The C division: a zero divisor gives an infinity or NaN.
FDiv(x, y) == Arith("FDiv", <<x, y>>)

FromInt(n) == IF n >= 0 THEN Round(0, BFromInt(n), 0, FALSE) ELSE Round(1, BFromInt(-n), 0, FALSE)

\* n * 2^k for an integer n
Dyadic(n, k) == IF n >= 0 THEN Round(0, BFromInt(n), k, FALSE) ELSE Round(1, BFromInt(-n), k, FALSE)

FNeg(x) == IF x.c = "nan" THEN x ELSE [x EXCEPT !.s = 1 - x.s]

FAbs(x) == IF x.c = "nan" THEN x ELSE [x EXCEPT !.s = 0]

FGt(x, y) == FLt(y, x)

\* x == y in the IEEE sense: zeros of either sign are equal, NaN equals nothing
FEq(x, y) ==
    IF x.c = "nan" \/ y.c = "nan" THEN FALSE
    ELSE IF x.c = "zero" /\ y.c = "zero" THEN TRUE
    ELSE x = y

FLe(x, y) == FLt(x, y) \/ FEq(x, y)

FGe(x, y) == FLe(y, x)

FSub(x, y) == FAdd(x, FNeg(y))

Xor(a, b) == IF a = b THEN 0 ELSE 1

\* An operand more than GuardBits binades below the other only makes the sum inexact.
GuardBits == 64

FLibm == [c |-> "libm", s |-> 0, m |-> <<>>, e |-> 0]

Complex(re, im) == [type |-> "complex", re |-> re, im |-> im]

CLibm == Complex(FLibm, FLibm)

IsLibm(z) == z.re.c = "libm" \/ z.im.c = "libm"

IsCZero(z) == z.re.c = "zero" /\ z.im.c = "zero"

One == FFin(0, <<0, 0, 0, 1024>>, -52)

\* complex(x): a real number met in complex arithmetic
FromReal(x) == Complex(x, FZero(0))

CZero == FromReal(FZero(0))

COne == FromReal(One)

\* 1j
J == Complex(FZero(0), One)

\* np.pi
Pi == FFin(0, <<11544, 4368, 8117, 1608>>, -51)

\* x + y where either may be a C library value: a NaN or an infinity wins.
LAdd(x, y) ==
    IF x.c = "libm" THEN (IF y.c \in {"nan", "inf"} THEN y ELSE FLibm)
    ELSE IF y.c = "libm" THEN (IF x.c \in {"nan", "inf"} THEN x ELSE FLibm)
    ELSE FAdd(x, y)

c_sum(a, b) == Arith("c_sum", <<a, b>>)

c_prod(a, b) == Arith("c_prod", <<a, b>>)

\* x < 0 ? -x : x
PyAbs(x) == IF FLt(x, FZero(0)) THEN FNeg(x) ELSE x

\* Python's a / b on complex numbers.
c_quot(a, b) == Arith("c_quot", <<a, b>>)

\* numpy's a / b on one element of a complex array.
np_divide(a, b) == Arith("np_divide", <<a, b>>)

\* a / b for a scalar frequency ("scalar") or an array of them ("array")
Divide(a, b, mode) == IF mode = "scalar" THEN c_quot(a, b) ELSE np_divide(a, b)

(***************************************************************************)
(* The element library (core/elements.py).  A parameter value is a scalar  *)
(* or a tuple of doubles.                                                  *)
(***************************************************************************)
Scalar(x) == [shape |-> "scalar", v |-> <<x>>]

Tuple(xs) == [shape |-> "tuple", v |-> xs]

\* ValueError("CPE exponent n must be in the range (0, 1].")
DomainError == Raise("ValueError", <<"n">>)

Resistor_impedance(frequency, R, mode) ==
    IF mode = "array" THEN Complex(R.v[1], FZero(0))
    ELSE c_sum(FromReal(R.v[1]), CZero)

Capacitor_impedance(frequency, C, mode) ==
    LET omega == FMul(FMul(FromInt(2), Pi), frequency)
    IN Divide(COne, c_prod(c_prod(J, FromReal(omega)), FromReal(C.v[1])), mode)

Inductor_impedance(frequency, L, mode) ==
    LET omega == FMul(FMul(FromInt(2), Pi), frequency)
    IN c_prod(c_prod(J, FromReal(omega)), FromReal(L.v[1]))

\* The square roots are left to the C library.
Warburg_impedance(frequency, Aw, mode) == CLibm

\* An integer exponent (here only n = 1) is raised by repeated
\* multiplication; a fractional one by the C library.
CPE_impedance(frequency, C_n, mode) ==
    IF C_n.shape # "tuple" THEN Raise("TypeError", <<>>)
    ELSE IF Len(C_n.v) # 2 THEN Raise("ValueError", <<"unpack">>)
    ELSE LET C == C_n.v[1]
             n == C_n.v[2]
         IN IF FLe(n, FZero(0)) \/ FGt(n, One) THEN DomainError
            ELSE LET base == c_prod(c_prod(c_prod(J, FromReal(FromInt(2))), FromReal(Pi)),
                                    FromReal(frequency))
                     power == IF ~FEq(n, One) THEN CLibm
                              ELSE IF mode = "scalar" THEN c_prod(COne, base)
                              ELSE base
                 IN Divide(COne, c_prod(FromReal(C), power), mode)

(***************************************************************************)
(* The tree evaluator (ElementNode, SeriesNode, ParallelNode.impedance).   *)
(* params maps element keys to parameter values.  sum() starts from 0 and  *)
(* adds the children in order; the first exception ends the evaluation.    *)
(***************************************************************************)
\* node.impedance(frequency, params) at one frequency
impedance(node, frequency, params, mode) == Arith("impedance", <<node, frequency, params, mode>>)

ElementNode_impedance(node, frequency, params, mode) ==
    LET key == ElementKey(node) IN
    IF key \notin DOMAIN params THEN Raise("KeyError", key)
    ELSE CASE node.kind = "Resistor" -> Resistor_impedance(frequency, params[key], mode)
           [] node.kind = "Capacitor" -> Capacitor_impedance(frequency, params[key], mode)
           [] node.kind = "Inductor" -> Inductor_impedance(frequency, params[key], mode)
           [] node.kind = "Warburg" -> Warburg_impedance(frequency, params[key], mode)
           [] node.kind = "CPE" -> CPE_impedance(frequency, params[key], mode)

RECURSIVE SeriesSum(_, _, _, _, _, _)
SeriesSum(children, frequency, params, mode, i, total) ==
    IF i > Len(children) THEN total
    ELSE LET z == impedance(children[i], frequency, params, mode)
         IN IF IsError(z) THEN z
            ELSE SeriesSum(children, frequency, params, mode, i + 1, c_sum(total, z))

SeriesNode_impedance(node, frequency, params, mode) ==
    SeriesSum(node.children, frequency, params, mode, 1, CZero)

RECURSIVE ParallelSum(_, _, _, _, _, _)
ParallelSum(children, frequency, params, mode, i, total) ==
    IF i > Len(children) THEN total
    ELSE LET z == impedance(children[i], frequency, params, mode)
         IN IF IsError(z) THEN z
            ELSE LET y == Divide(COne, z, mode)
                 IN IF IsError(y) THEN y
                    ELSE ParallelSum(children, frequency, params, mode, i + 1, c_sum(total, y))

\* ParallelNode.impedance returning the total admittance itself.
ParallelNode_impedance_admittance(node, frequency, params, mode) ==
    ParallelSum(node.children, frequency, params, mode, 1, CZero)

ParallelNode_impedance(node, frequency, params, mode) ==
    LET total_admittance == ParallelSum(node.children, frequency, params, mode, 1, CZero)
    IN IF IsError(total_admittance) THEN total_admittance
       ELSE Divide(COne, total_admittance, mode)

\* x / y for finite non-zero x and y, the numerator scaled by 2^k so that
\* the quotient d has the bits the rounding needs.
RoundScaled(x, y, k, d) == Round(Xor(x.s, y.s), d.q, x.e - y.e - k, d.inexact)

RoundQuotient(x, y, k) == RoundScaled(x, y, k, BDiv(BShl(x.m, k), y.m))

(***************************************************************************)
(* The recursive core: the arithmetic and the dispatch of impedance on     *)
(* the type of the node.                                                   *)
(***************************************************************************)
Arith(op, args) ==
    CASE op = "Round" ->
        LET s == args[1]
            M == args[2]
            E == args[3]
            sticky == args[4]
        IN IF M = <<>> THEN FZero(s)
           ELSE LET L == BBitLen(M)
                    shift == Max(L - Precision, EMin - E)
                IN IF shift <= 0
                   THEN LET k == Min(Precision - L, E - EMin)
                        IN IF E - k > EMax THEN FInf(s) ELSE FFin(s, BShl(M, k), E - k)
                   ELSE LET q == BShr(M, shift)
                            half == BBit(M, shift - 1) = 1
                            rest == sticky \/ BLowBits(M, shift - 1)
                            up == half /\ (rest \/ BBit(q, 0) = 1)
                            q1 == IF up THEN BAdd(q, <<1>>) ELSE q
                            carry == BBitLen(q1) > Precision
                            m == IF carry THEN BShr(q1, 1) ELSE q1
                            e == IF carry THEN E + shift + 1 ELSE E + shift
                        IN IF m = <<>> THEN FZero(s)
                           ELSE IF e > EMax THEN FInf(s)
                           ELSE FFin(s, m, e)
      [] op = "MagCmp" ->
        LET x == args[1]
            y == args[2]
        IN IF x.c = "zero" THEN (IF y.c = "zero" THEN 0 ELSE -1)
           ELSE IF y.c = "zero" THEN 1
           ELSE LET e0 == Min(x.e, y.e)
                IN IF BBitLen(x.m) + x.e # BBitLen(y.m) + y.e
                   THEN (IF BBitLen(x.m) + x.e < BBitLen(y.m) + y.e THEN -1 ELSE 1)
                   ELSE BCmp(BShl(x.m, x.e - e0), BShl(y.m, y.e - e0))
      [] op = "FLt" ->
        LET x == args[1]
            y == args[2]
        IN IF x.c = "nan" \/ y.c = "nan" THEN FALSE
           ELSE IF x.c = "zero" /\ y.c = "zero" THEN FALSE
           ELSE IF x.c = "inf" \/ y.c = "inf"
           THEN IF x.c = "inf" /\ y.c = "inf" THEN x.s = 1 /\ y.s = 0
                ELSE IF x.c = "inf" THEN x.s = 1 ELSE y.s = 0
           ELSE IF x.c = "zero" THEN y.s = 0
           ELSE IF y.c = "zero" THEN x.s = 1
           ELSE IF x.s # y.s THEN x.s = 1
           ELSE IF x.s = 0 THEN MagCmp(x, y) < 0 ELSE MagCmp(x, y) > 0
      [] op = "FAdd" ->
        LET x == args[1]
            y == args[2]
        IN IF x.c = "nan" \/ y.c = "nan" THEN FNaN
           ELSE IF x.c = "inf" \/ y.c = "inf"
           THEN IF x.c = "inf" /\ y.c = "inf" THEN (IF x.s = y.s THEN x ELSE FNaN)
                ELSE IF x.c = "inf" THEN x ELSE y
           ELSE IF x.c = "zero" /\ y.c = "zero" THEN FZero(IF x.s = 1 /\ y.s = 1 THEN 1 ELSE 0)
           ELSE IF x.c = "zero" THEN y
           ELSE IF y.c = "zero" THEN x
           ELSE LET big == IF x.e >= y.e THEN x ELSE y
                    small == IF x.e >= y.e THEN y ELSE x
                    far == big.e - small.e > GuardBits
                    e0 == IF far THEN big.e - GuardBits ELSE small.e
                    Mb == BShl(big.m, big.e - e0)
                    Ms == IF far THEN <<1>> ELSE small.m
                IN IF big.s = small.s THEN Round(big.s, BAdd(Mb, Ms), e0, far)
                   ELSE IF BCmp(Mb, Ms) = 0 THEN FZero(0)
                   ELSE IF BCmp(Mb, Ms) > 0 THEN Round(big.s, BSub(Mb, Ms), e0, FALSE)
                   ELSE Round(small.s, BSub(Ms, Mb), e0, FALSE)
      [] op = "FMul" ->
        LET x == args[1]
            y == args[2]
        IN IF x.c = "nan" \/ y.c = "nan" THEN FNaN
           ELSE IF x.c = "inf" \/ y.c = "inf"
           THEN IF x.c = "zero" \/ y.c = "zero" THEN FNaN ELSE FInf(Xor(x.s, y.s))
           ELSE IF x.c = "zero" \/ y.c = "zero" THEN FZero(Xor(x.s, y.s))
           ELSE Round(Xor(x.s, y.s), BMul(x.m, y.m), x.e + y.e, FALSE)
      [] op = "FDiv" ->
        LET x == args[1]
            y == args[2]
        IN IF x.c = "nan" \/ y.c = "nan" THEN FNaN
           ELSE IF x.c = "inf" THEN (IF y.c = "inf" THEN FNaN ELSE FInf(Xor(x.s, y.s)))
           ELSE IF y.c = "inf" THEN FZero(Xor(x.s, y.s))
           ELSE IF y.c = "zero" THEN (IF x.c = "zero" THEN FNaN ELSE FInf(Xor(x.s, y.s)))
           ELSE IF x.c = "zero" THEN FZero(Xor(x.s, y.s))
           ELSE RoundQuotient(x, y, Max(0, Precision + 3 + BBitLen(y.m) - BBitLen(x.m)))
      [] op = "c_sum" ->
        LET a == args[1]
            b == args[2]
        IN Complex(LAdd(a.re, b.re), LAdd(a.im, b.im))
      [] op = "c_prod" ->
        LET a == args[1]
            b == args[2]
        IN IF IsLibm(a) \/ IsLibm(b)
           THEN (IF IsCZero(a) \/ IsCZero(b) THEN Complex(FZero(0), FZero(0)) ELSE CLibm)
           ELSE Complex(FSub(FMul(a.re, b.re), FMul(a.im, b.im)),
                        FAdd(FMul(a.re, b.im), FMul(a.im, b.re)))
      [] op = "c_quot" ->
        LET a == args[1]
            b == args[2]
        IN IF IsLibm(b) THEN CLibm
           ELSE LET abs_breal == PyAbs(b.re)
                    abs_bimag == PyAbs(b.im)
                IN IF FGe(abs_breal, abs_bimag)
                   THEN IF FEq(abs_breal, FZero(0)) THEN Raise("ZeroDivisionError", <<>>)
                        ELSE IF IsLibm(a) THEN CLibm
                        ELSE LET ratio == FDiv(b.im, b.re)
                                 denom == FAdd(b.re, FMul(b.im, ratio))
                             IN Complex(FDiv(FAdd(a.re, FMul(a.im, ratio)), denom),
                                        FDiv(FSub(a.im, FMul(a.re, ratio)), denom))
                   ELSE IF FGe(abs_bimag, abs_breal)
                   THEN IF IsLibm(a) THEN CLibm
                        ELSE LET ratio == FDiv(b.re, b.im)
                                 denom == FAdd(FMul(b.re, ratio), b.im)
                             IN Complex(FDiv(FAdd(FMul(a.re, ratio), a.im), denom),
                                        FDiv(FSub(FMul(a.im, ratio), a.re), denom))
                   ELSE Complex(FNaN, FNaN)
      [] op = "np_divide" ->
        LET a == args[1]
            b == args[2]
        IN IF IsLibm(a) \/ IsLibm(b) THEN CLibm
           ELSE LET in2r_abs == FAbs(b.re)
                    in2i_abs == FAbs(b.im)
                IN IF FGe(in2r_abs, in2i_abs)
                   THEN IF FEq(in2r_abs, FZero(0)) /\ FEq(in2i_abs, FZero(0))
                        THEN Complex(FDiv(a.re, in2r_abs), FDiv(a.im, in2r_abs))
                        ELSE LET rat == FDiv(b.im, b.re)
                                 scl == FDiv(One, FAdd(b.re, FMul(b.im, rat)))
                             IN Complex(FMul(FAdd(a.re, FMul(a.im, rat)), scl),
                                        FMul(FSub(a.im, FMul(a.re, rat)), scl))
                   ELSE LET rat == FDiv(b.re, b.im)
                            scl == FDiv(One, FAdd(b.im, FMul(b.re, rat)))
                        IN Complex(FMul(FAdd(FMul(a.re, rat), a.im), scl),
                                   FMul(FSub(FMul(a.im, rat), a.re), scl))
      [] op = "impedance" ->
        LET node == args[1]
            frequency == args[2]
            params == args[3]
            mode == args[4]
        IN CASE node.type = "element" -> ElementNode_impedance(node, frequency, params, mode)
             [] node.type = "series" -> SeriesNode_impedance(node, frequency, params, mode)
             [] node.type = "parallel" -> ParallelNode_impedance(node, frequency, params, mode)

\* node.impedance(frequency, params) for a float or an ndarray of floats
Evaluate(node, frequency, params) ==
    IF frequency.mode = "scalar" THEN impedance(node, frequency.f[1], params, "scalar")
    ELSE LET zs == [i \in 1..Len(frequency.f) |-> impedance(node, frequency.f[i], params, "array")]
         IN IF IsError(zs[1]) THEN zs[1] ELSE [type |-> "array", z |-> zs]

(***************************************************************************)
(* The parser driven by a user: text is typed one character at a time and  *)
(* parse_circuit is applied to it.                                         *)
(***************************************************************************)
NoResult == [type |-> "none"]

\* The characters typed.
Alphabet == {"R", "C", "Q", "S", "1", "-", "|", "(", ")", " ", "X"}

\* Circuit texts of the documentation and one element of every tag.
Seeds ==
    { <<>>,
      <<"R","1","-","C","1","|","R","2">>,
      <<"R","1","-","Q","1","|","(","R","2","-","W","1",")">>,
      <<"(","R","1","-","C","1",")","(","R","2",")">>,
      <<"C","1">>, <<"L","1">>, <<"W","1">>, <<"S","1">>, <<"O","1">>,
      <<"\t","R","1","\n">> }

\* The evaluator at rest.
EvalIdle ==
    /\ circuit = NoResult
    /\ values = <<>>
    /\ freq = NoResult
    /\ Z = NoResult

\* fit at rest.
FitIdle ==
    /\ mapping = <<>>
    /\ given = NoResult
    /\ flat = NoResult
    /\ rebuilt = NoResult
    /\ fitted = NoResult
    /\ shared = NoResult

\* best_model at rest.
SelectIdle ==
    /\ models = <<>>
    /\ heap = <<>>
    /\ sel = NoResult
    /\ registry = {}

\* The web layer at rest.
WebIdle == web = NoResult /\ api = NoResult

InitParse ==
    text \in Seeds /\ result = NoResult /\ EvalIdle /\ FitIdle /\ SelectIdle /\ WebIdle

Type(c) ==
    /\ Len(text) < MaxLen
    /\ text' = Append(text, c)
    /\ result' = NoResult
    /\ UNCHANGED <<evalVars, fitVars, selectVars, webVars>>

Parse ==
    /\ result = NoResult
    /\ result' = parse_circuit(text)
    /\ UNCHANGED <<text, evalVars, fitVars, selectVars, webVars>>

NextParse == (\E c \in Alphabet : Type(c)) \/ Parse

SpecParse == InitParse /\ [][NextParse]_vars

(***************************************************************************)
(* What the specification says of circuit text, stated without the         *)
(* parser: str.split, the element tokens of a text, the seven kinds.       *)
(***************************************************************************)
SpecTags == {"R", "C", "L", "W", "S", "O", "Q"}

SpecKind(tag) ==
    CASE tag = "R" -> "Resistor"
      [] tag = "C" -> "Capacitor"
      [] tag = "L" -> "Inductor"
      [] tag = "W" -> "Warburg"
      [] tag = "S" -> "WarburgShort"
      [] tag = "O" -> "WarburgOpen"
      [] tag = "Q" -> "CPE"
      [] OTHER -> "unknown"

IndexOf(s, c) == CHOOSE i \in 1..Len(s) : s[i] = c /\ \A j \in 1..(i - 1) : s[j] # c

RECURSIVE SplitOn(_, _)
SplitOn(s, c) ==
    IF ~Contains(s, c) THEN <<s>>
    ELSE LET i == IndexOf(s, c)
         IN <<SubSeq(s, 1, i - 1)>> \o SplitOn(SubSeq(s, i + 1, Len(s)), c)

HasParen(s) == Contains(s, "(") \/ Contains(s, ")")

\* Every token between operators holds an element name.
NoEmptyToken(s) ==
    \A i \in 1..Len(SplitOn(s, "-")) :
        \A j \in 1..Len(SplitOn(SplitOn(s, "-")[i], "|")) :
            strip(SplitOn(SplitOn(s, "-")[i], "|")[j]) # <<>>

\* The tokens between the operators of a text without parentheses.
TokensOf(s) ==
    UNION { { strip(SplitOn(SplitOn(s, "-")[i], "|")[j]) :
                j \in 1..Len(SplitOn(SplitOn(s, "-")[i], "|")) } :
            i \in 1..Len(SplitOn(s, "-")) }

RefElement(tok) ==
    LET s == strip(tok) IN ElementNode(SpecKind(Head(s)), Head(s), Tail(s))

RefPart(part) ==
    IF Contains(part, "|")
    THEN ParallelNode([j \in 1..Len(SplitOn(part, "|")) |-> RefElement(SplitOn(part, "|")[j])])
    ELSE RefElement(part)

RefMixed(s) ==
    SeriesNode([i \in 1..Len(SplitOn(s, "-")) |-> RefPart(SplitOn(s, "-")[i])])

Mixed(s) == ~HasParen(s) /\ Contains(s, "-") /\ Contains(s, "|")

Example_R1_C1_R2 == <<"R","1","-","C","1","|","R","2">>

\* C1: for text without parentheses that holds both operators and an element
\* name on both sides of every operator, parse_circuit splits on '-' first and
\* on '|' second: when it returns a tree, the tree is the Series node over the
\* '-'-separated parts in order, each part with '|' a Parallel node over its
\* '|'-separated elements in order; "R1-C1|R2" gives
\* Series[R1, Parallel[C1, R2]].
C1_SeriesSplitsFirst ==
    /\ (result # NoResult /\ Mixed(text) /\ NoEmptyToken(text) /\ IsTree(result))
            => result = RefMixed(text)
    /\ (/\ result # NoResult /\ Mixed(text) /\ NoEmptyToken(text)
         /\ \A tok \in TokensOf(text) : Head(tok) \in {"R", "C", "L", "W", "Q"})
            => IsTree(result)
    /\ (result # NoResult /\ text = Example_R1_C1_R2)
            => result = SeriesNode(<<ElementNode("Resistor", "R", <<"1">>),
                                     ParallelNode(<<ElementNode("Capacitor", "C", <<"1">>),
                                                    ElementNode("Resistor", "R", <<"2">>)>>)>>)

C1_Witness ==
    /\ result # NoResult /\ IsTree(result)
    /\ text = Example_R1_C1_R2
    /\ Len(result.children) = 2 /\ result.children[2].type = "parallel"

\* C2: each of the seven tags R, C, L, W, S, O, Q followed by an identifier
\* parses to an Element node of the tag's kind whose key is the text.
IdentChars == Alphabet \ {"-", "|", "(", ")", " "}

C2_SevenTagsAccepted ==
    (/\ result # NoResult /\ text # <<>> /\ Head(text) \in SpecTags
     /\ \A i \in 2..Len(text) : text[i] \in IdentChars)
        => (IsTree(result) /\ result = ElementNode(SpecKind(Head(text)), Head(text), Tail(text)))

\* C3: text with an empty element token (empty text, "()", a leading, trailing
\* or doubled operator) or with a token of unknown tag is rejected, always
\* with the unknown-element error, and never yields a tree.
Malformed(s) ==
    \/ s = <<"(", ")">>
    \/ /\ ~HasParen(s)
       /\ \/ ~NoEmptyToken(s)
          \/ \E i \in 1..Len(SplitOn(s, "-")) :
                \E j \in 1..Len(SplitOn(SplitOn(s, "-")[i], "|")) :
                    LET tok == strip(SplitOn(SplitOn(s, "-")[i], "|")[j])
                    IN tok # <<>> /\ Head(tok) \notin SpecTags

C3_MalformedRejected ==
    (result # NoResult /\ Malformed(text))
        => (IsError(result) /\ result.error = "ValueError")

\* The parenthesis depth after the first k characters of s.
RECURSIVE Depth(_, _)
Depth(s, k) ==
    IF k = 0 THEN 0
    ELSE Depth(s, k - 1) + (IF s[k] = "(" THEN 1 ELSE IF s[k] = ")" THEN -1 ELSE 0)

Balanced(s) == Depth(s, Len(s)) = 0 /\ \A k \in 1..Len(s) : Depth(s, k) >= 0

\* The element names of a text in order: the runs of characters between
\* operators and parentheses, stripped, the empty ones left out.
RECURSIVE NamesLoop(_, _, _)
NamesLoop(s, i, run) ==
    LET close == IF strip(run) = <<>> THEN <<>> ELSE <<strip(run)>> IN
    IF i > Len(s) THEN close
    ELSE IF s[i] \in {"-", "|", "(", ")"} THEN close \o NamesLoop(s, i + 1, <<>>)
    ELSE NamesLoop(s, i + 1, Append(run, s[i]))

Names(s) == NamesLoop(s, 1, <<>>)

\* The balanced groups of a text: an opening parenthesis and the one closing it.
Groups(s) ==
    { g \in (1..Len(s)) \X (1..Len(s)) :
        /\ g[1] < g[2] /\ s[g[1]] = "(" /\ s[g[2]] = ")"
        /\ Balanced(SubSeq(s, g[1] + 1, g[2] - 1)) }

RECURSIVE Leaves(_)
Leaves(t) ==
    IF t.type = "element" THEN <<ElementKey(t)>>
    ELSE LET RECURSIVE Cat(_)
             Cat(i) == IF i > Len(t.children) THEN <<>>
                       ELSE Leaves(t.children[i]) \o Cat(i + 1)
         IN Cat(1)

RECURSIVE Subtrees(_)
Subtrees(t) ==
    IF t.type = "element" THEN {t}
    ELSE {t} \cup UNION { Subtrees(t.children[i]) : i \in 1..Len(t.children) }

\* C4: for text with balanced parentheses no operator inside a group is a
\* split point of the enclosing level: every part of a split is balanced, and
\* in the tree returned every group is one subtree, whose leaves are the
\* element names written inside the group.
C4_GroupsStayWhole ==
    (result # NoResult /\ Balanced(text))
        => /\ \A op \in {"-", "|"} :
                \A i \in 1..Len(_split_by_operator(strip(text), op)) :
                    Balanced(_split_by_operator(strip(text), op)[i])
           /\ IsTree(result) =>
                \A g \in Groups(text) :
                    Names(SubSeq(text, g[1] + 1, g[2] - 1)) # <<>> =>
                        \E t \in Subtrees(result) :
                            Leaves(t) = Names(SubSeq(text, g[1] + 1, g[2] - 1))

\* The arguments of the recursive parse_circuit calls that parse_circuit(str)
\* makes itself: the parts of the split it chooses, or the text between the
\* outer characters it strips.
RecursiveCalls(str) ==
    LET string == strip(str)
        pos == main_operator(string)
    IN IF Contains(string, "(")
       THEN IF pos.series_pos # -1 THEN _split_by_operator(string, "-")
            ELSE IF pos.parallel_pos # -1 THEN _split_by_operator(string, "|")
            ELSE IF Len(string) > 1 /\ Head(string) = "(" /\ string[Len(string)] = ")"
            THEN <<SubSeq(string, 2, Len(string) - 1)>>
            ELSE <<>>
       ELSE IF Contains(string, "-") THEN _split_by_operator(string, "-")
       ELSE IF Contains(string, "|") THEN _split_by_operator(string, "|")
       ELSE <<>>

\* C17: parse_circuit terminates on every text: each recursive call it makes
\* is on a string strictly shorter than its argument, so the parse ends with
\* a tree or with the parser's own error and never with RecursionError,
\* unbalanced parentheses included.
C17_RecursionShrinks ==
    result # NoResult
        => /\ \A i \in 1..Len(RecursiveCalls(text)) :
                Len(RecursiveCalls(text)[i]) < Len(text)
           /\ ~(IsError(result) /\ result.error = "RecursionError")

\* The opening parenthesis at position 1 of s is closed by the last character.
WrappedInOnePair(s) ==
    /\ Len(s) >= 2
    /\ Head(s) = "(" /\ s[Len(s)] = ")"
    /\ \A k \in 1..(Len(s) - 1) : Depth(s, k) > 0
    /\ Depth(s, Len(s)) = 0

\* C18: with no top-level operator the outer characters are stripped only
\* when the text is wrapped in one matching pair of parentheses; any other
\* text of that branch is taken as a single element as it stands, and no
\* leaf of a returned tree has '(' or ')' in its identifier.
C18_StripOnlyMatchingPair ==
    result # NoResult
        => /\ ( /\ Contains(strip(text), "(")
                /\ main_operator(strip(text)).series_pos = -1
                /\ main_operator(strip(text)).parallel_pos = -1
                /\ ~WrappedInOnePair(strip(text)) )
              => result = _create_element_node(strip(text))
           /\ IsTree(result)
              => \A t \in Subtrees(result) :
                    t.type = "element" => ~HasParen(t.name)

\* C19: every Series node and every Parallel node of a returned tree has at
\* least two children.
C19_CompositesAreBinary ==
    IsTree(result)
        => \A t \in Subtrees(result) :
              t.type \in {"series", "parallel"} => Len(t.children) >= 2

(***************************************************************************)
(* The evaluator driven by a caller: a circuit is parsed, parameters are   *)
(* bound one key at a time, and impedance is called with a float or with   *)
(* an array of floats.  A call made before every key is bound raises       *)
(* KeyError.                                                               *)
(***************************************************************************)
\* 1e-6
Micro == FFin(0, <<11661, 727, 12154, 1073>>, -72)

\* 1e-3
Milli == FFin(0, <<10748, 3014, 9437, 1048>>, -62)

\* 1.3
OnePointThree == FFin(0, <<3277, 13107, 3276, 1331>>, -52)

Half == Dyadic(1, -1)

\* 2, 49 and 93 ohm and a short circuit.
OrdinaryResistances == {FZero(0), FromInt(2), FromInt(49), FromInt(93)}

\* Resistances: the ordinary ones; 49 * 2^-1026 and 49 * 2^1015 near the
\* ends of the range where 1/R, 2/R and R/2 are normal doubles; 2^-1030,
\* whose reciprocal overflows; and infinity.
Resistances ==
    OrdinaryResistances
        \cup {Dyadic(49, -1026), Dyadic(49, 1015), Dyadic(1, -1030), FInf(0)}

Exponents == {FZero(0), Half, One, OnePointThree}

Keys(tree) == {Leaves(tree)[i] : i \in 1..Len(Leaves(tree))}

\* The tree has a leaf whose impedance takes a fractional power or a square
\* root from the C library.
HasLibmLeaf(tree) == \E key \in Keys(tree) : Head(key) \in {"Q", "W"}

\* The values a caller binds to a key, by the tag of the key.  Beside a
\* value of the C library only the ordinary resistances are bound: what
\* such a value gives with a number near the ends of the double range
\* (an underflow to zero, an overflow) depends on its digits.
ParamValues(key) ==
    CASE Head(key) = "R" ->
            {Scalar(r) : r \in IF HasLibmLeaf(circuit) THEN OrdinaryResistances ELSE Resistances}
      [] Head(key) = "C" -> {Scalar(Micro)}
      [] Head(key) = "L" -> {Scalar(FZero(0)), Scalar(Milli)}
      [] Head(key) = "W" -> {Scalar(One)}
      [] Head(key) = "Q" -> {Tuple(<<Micro, n>>) : n \in Exponents}

Frequencies ==
    { [mode |-> "scalar", f |-> <<One>>],
      [mode |-> "scalar", f |-> <<FromInt(1000)>>],
      [mode |-> "array", f |-> <<One, FromInt(1000)>>] }

EvalTexts ==
    { <<"R","1">>, <<"C","1">>, <<"L","1">>, <<"Q","1">>, <<"W","1">>,
      <<"R","1","-","R","2">>, <<"R","1","|","R","2">>, <<"R","1","|","R","1">>,
      <<"R","1","-","C","1">>, <<"R","1","-","L","1","-","C","1">>,
      <<"R","1","|","L","1">>, <<"R","1","|","Q","1">>, <<"Q","1","|","R","1">>,
      <<"R","1","-","Q","1","|","(","R","2","-","L","1",")">>,
      <<"R","1","|","(","R","2","-","R","1",")">> }

InitEval ==
    /\ text \in EvalTexts
    /\ result = NoResult
    /\ circuit = parse_circuit(text)
    /\ values = <<>>
    /\ freq \in Frequencies
    /\ Z = NoResult
    /\ FitIdle
    /\ SelectIdle
    /\ WebIdle

\* params[key] = value
Bind(key, value) ==
    /\ key \in Keys(circuit)
    /\ key \notin DOMAIN values
    /\ values' = values @@ (key :> value)
    /\ Z' = NoResult
    /\ UNCHANGED <<text, result, circuit, freq, fitVars, selectVars, webVars>>

\* circuit.impedance(frequency, params)
CallImpedance ==
    /\ Z = NoResult
    /\ Z' = Evaluate(circuit, freq, values)
    /\ UNCHANGED <<text, result, circuit, values, freq, fitVars, selectVars, webVars>>

NextEval ==
    \/ \E key \in Keys(circuit) : \E value \in ParamValues(key) : Bind(key, value)
    \/ CallImpedance

SpecEval == InitEval /\ [][NextEval]_vars

(***************************************************************************)
(* What the specification says of evaluation, stated on the finished call: *)
(* every key of the circuit is bound and impedance has returned or raised. *)
(***************************************************************************)
Bound == \A key \in Keys(circuit) : key \in DOMAIN values

Called == Z # NoResult

Mode == freq.mode

\* The value returned for the i-th frequency (the exception, if one was raised).
ValueAt(i) == IF Z.type = "array" THEN Z.z[i] ELSE Z

\* A tree whose children are all elements.
Flat(tree) ==
    tree.type \in {"series", "parallel"} /\ \A i \in 1..Len(tree.children) : tree.children[i].type = "element"

\* The impedance of the element of a leaf at params[tag + identifier].
LeafValue(leaf, f) ==
    LET value == values[<<leaf.tag>> \o leaf.name] IN
    CASE leaf.tag = "R" -> Resistor_impedance(f, value, Mode)
      [] leaf.tag = "C" -> Capacitor_impedance(f, value, Mode)
      [] leaf.tag = "L" -> Inductor_impedance(f, value, Mode)
      [] leaf.tag = "W" -> Warburg_impedance(f, value, Mode)
      [] leaf.tag = "Q" -> CPE_impedance(f, value, Mode)

\* 0 + zs[1] + ... + zs[n]
RECURSIVE SumOf(_)
SumOf(zs) ==
    IF zs = <<>> THEN CZero
    ELSE c_sum(SumOf(SubSeq(zs, 1, Len(zs) - 1)), zs[Len(zs)])

\* 1 / z, or the exception z stands for
Reciprocal(z) == IF IsError(z) THEN z ELSE Divide(COne, z, Mode)

\* What the specification gives for a node at frequency f, by the shape of
\* the node: the element's impedance, the sum of the children's values, or
\* the reciprocal of the sum of their reciprocals.
RECURSIVE ExpectedOf(_, _)
ExpectedOf(node, f) ==
    IF node.type = "element" THEN LeafValue(node, f)
    ELSE LET all == [i \in 1..Len(node.children) |-> ExpectedOf(node.children[i], f)]
             zs == SubSeq(all, 1, Len(all))
             ys == [i \in 1..Len(zs) |-> Reciprocal(zs[i])]
         IN IF node.type = "series"
            THEN (IF AnyError(zs) THEN FirstError(zs) ELSE SumOf(zs))
            ELSE (IF AnyError(ys) THEN FirstError(ys) ELSE Reciprocal(SumOf(ys)))

\* What the specification gives for the circuit at frequency f.
Expected(f) == ExpectedOf(circuit, f)

\* Two resistor leaves in parallel, bound to the same resistance.
EqualResistors ==
    /\ circuit.type = "parallel"
    /\ Len(circuit.children) = 2
    /\ \A i \in 1..2 : circuit.children[i].type = "element" /\ circuit.children[i].tag = "R"
    /\ Bound
    /\ values[ElementKey(circuit.children[1])] = values[ElementKey(circuit.children[2])]

\* The common resistance R of EqualResistors.
CommonR == values[ElementKey(circuit.children[1])].v[1]

\* R / 2 (exact in binary64 when it is a normal double).
HalfR == FMul(CommonR, Half)

\* 2^-1021 <= R <= 2^1021: 1/R, 1/R + 1/R and R/2 are normal doubles.
NormalRange(R) == FGe(R, Dyadic(1, -1021)) /\ FLe(R, Dyadic(1, 1021))

\* 0 < R < 2^-1024: 1/R is more than the greatest double.
ReciprocalOverflows(R) == FGt(R, FZero(0)) /\ FLt(R, Dyadic(1, -1024))

\* 2^-51
Tolerance == Dyadic(1, -51)

\* C5 (as amended): an Element node returns its element's impedance at
\* params[tag+identifier]; a Series node returns the sum of its children's
\* values and a Parallel node the reciprocal of the sum of their
\* reciprocals, computed left to right in double precision at every depth
\* of the tree (an exception raised on the way is the result).  Two equal
\* resistors R in parallel give the same value at every frequency; for
\* 2^-1021 <= R <= 2^1021 it is real and within relative error 2^-51 of R/2;
\* for 0 < R < 2^-1024 the reciprocal overflows and the value is 0 for a
\* float frequency and NaN for an array; for R = inf a float frequency
\* raises ZeroDivisionError and an array gives a value that is not finite.
C5_TreeEvaluation ==
    /\ Called /\ Bound =>
           \A i \in 1..Len(freq.f) : ValueAt(i) = Expected(freq.f[i])
    /\ Called /\ EqualResistors =>
           \A i \in 1..Len(freq.f) : ValueAt(i) = ValueAt(1)
    /\ Called /\ EqualResistors /\ NormalRange(CommonR) =>
           /\ ValueAt(1).type = "complex"
           /\ ValueAt(1).im = FZero(0)
           /\ FLe(FDiv(FAbs(FSub(ValueAt(1).re, HalfR)), HalfR), Tolerance)
    /\ Called /\ EqualResistors /\ ReciprocalOverflows(CommonR) =>
           /\ ValueAt(1).type = "complex"
           /\ IF Mode = "scalar" THEN ValueAt(1) = CZero
              ELSE ValueAt(1).re.c = "nan" /\ ValueAt(1).im.c = "nan"
    /\ Called /\ EqualResistors /\ CommonR = FInf(0) =>
           IF Mode = "scalar"
           THEN IsError(ValueAt(1)) /\ ValueAt(1).error = "ZeroDivisionError"
           ELSE ValueAt(1).type = "complex"
                /\ (ValueAt(1).re.c \in {"inf", "nan"} \/ ValueAt(1).im.c \in {"inf", "nan"})

\* C5 witness: two resistors of 49 ohm in parallel were evaluated and the
\* value returned is not 24.5.
C5_Witness ==
    /\ Called /\ EqualResistors
    /\ HalfR = Dyadic(49, -1)
    /\ ValueAt(1).type = "complex"
    /\ ValueAt(1).re # HalfR

\* C5 as stated: two equal resistors R > 0 in parallel give exactly R/2.
C5_ExactlyHalf ==
    Called /\ EqualResistors /\ FGt(CommonR, FZero(0)) =>
        \A i \in 1..Len(freq.f) :
            ValueAt(i).type = "complex" /\ ValueAt(i) = Complex(HalfR, FZero(0))

NonFinite(z) == z.re.c \in {"inf", "nan"} \/ z.im.c \in {"inf", "nan"}

\* A parallel of elements, every one of which has an impedance, one of them zero.
ZeroChild(f) ==
    /\ circuit.type = "parallel" /\ Flat(circuit) /\ Bound
    /\ \A i \in 1..Len(circuit.children) : ~IsError(LeafValue(circuit.children[i], f))
    /\ \E i \in 1..Len(circuit.children) : IsCZero(LeafValue(circuit.children[i], f))

\* C6: a Parallel node with a child whose impedance is exactly zero does not
\* raise: the evaluation returns a value with an infinite or NaN component,
\* for a scalar frequency as for an array.
C6_ZeroChildGivesNonFinite ==
    \A i \in 1..Len(freq.f) :
        Called /\ ZeroChild(freq.f[i]) => ~IsError(Z) /\ NonFinite(ValueAt(i))

\* The exponent bound to a CPE leaf is outside (0, 1].
BadExponent(key) ==
    /\ Head(key) = "Q"
    /\ FLe(values[key].v[2], FZero(0)) \/ FGt(values[key].v[2], One)

\* C7: CPE.impedance raises the domain error for n <= 0 and for n > 1 and
\* returns a value for 0 < n <= 1; evaluating any tree with a CPE leaf whose
\* exponent is outside (0, 1] raises that error.
C7_DomainErrorPropagates ==
    Called /\ Bound =>
        /\ (\E key \in Keys(circuit) : BadExponent(key)) => Z = DomainError
        /\ circuit.type = "element" /\ circuit.tag = "Q" /\ ~BadExponent(ElementKey(circuit))
               => ~IsError(Z)

(***************************************************************************)
(* The parameter codec of CircuitNode.fit.  A parameter mapping is a       *)
(* Python dict: a sequence of entries in insertion order, with distinct    *)
(* keys.  fit flattens it in sorted key order into the initial guess p0,   *)
(* the two bound vectors and the structure list; model_wrapper rebuilds a  *)
(* mapping from a flat vector; after the solver has returned, the mapping  *)
(* passed in is updated in place.                                          *)
(***************************************************************************)
Entry(key, val) == [key |-> key, val |-> val]

\* A mapping held by a variable of fit.
Dict(items) == [type |-> "dict", items |-> items]

KeysOf(params) == {params[i].key : i \in 1..Len(params)}

\* params[key]
Get(params, key) == params[CHOOSE i \in 1..Len(params) : params[i].key = key].val

Digits == <<"0", "1", "2", "3", "4", "5", "6", "7", "8", "9">>

Upper == <<"A", "B", "C", "D", "E", "F", "G", "H", "I", "J", "K", "L", "M",
           "N", "O", "P", "Q", "R", "S", "T", "U", "V", "W", "X", "Y", "Z">>

\* ord(c) for a digit or an upper-case letter
CodePoint(c) ==
    IF \E i \in 1..Len(Digits) : Digits[i] = c
    THEN 47 + (CHOOSE i \in 1..Len(Digits) : Digits[i] = c)
    ELSE 64 + (CHOOSE i \in 1..Len(Upper) : Upper[i] = c)

\* a < b on strings
RECURSIVE StrLess(_, _)
StrLess(a, b) ==
    IF a = <<>> THEN b # <<>>
    ELSE IF b = <<>> THEN FALSE
    ELSE IF Head(a) = Head(b) THEN StrLess(Tail(a), Tail(b))
    ELSE CodePoint(Head(a)) < CodePoint(Head(b))

\* sorted(keys)
RECURSIVE sorted(_)
sorted(keys) ==
    IF keys = {} THEN <<>>
    ELSE LET first == CHOOSE k \in keys : \A other \in keys \ {k} : StrLess(k, other)
         IN <<first>> \o sorted(keys \ {first})

\* eps = 1e-12
Eps == FFin(0, <<10769, 1207, 14744, 1125>>, -92)

\* np.inf
Inf == FInf(0)

\* [x] * n
Repeat(x, n) == [j \in 1..n |-> x]

\* The loop over the sorted keys that builds the flat vectors.
RECURSIVE FlattenLoop(_, _, _, _)
FlattenLoop(params, keys, i, acc) ==
    IF i > Len(keys) THEN acc
    ELSE LET key == keys[i]
             val == Get(params, key)
             length == Len(val.v)
             startswithQ == key # <<>> /\ Head(key) = "Q"
         IN IF val.shape = "tuple"
            THEN FlattenLoop(params, keys, i + 1,
                     [type |-> "flat",
                      p0 |-> acc.p0 \o val.v,
                      lower_bounds |-> acc.lower_bounds \o
                          (IF startswithQ THEN <<Eps, Eps>> ELSE Repeat(Eps, length)),
                      upper_bounds |-> acc.upper_bounds \o
                          (IF startswithQ THEN <<Inf, One>> ELSE Repeat(Inf, length)),
                      structure |-> Append(acc.structure, <<key, length>>)])
            ELSE FlattenLoop(params, keys, i + 1,
                     [type |-> "flat",
                      p0 |-> Append(acc.p0, val.v[1]),
                      lower_bounds |-> Append(acc.lower_bounds, Eps),
                      upper_bounds |-> Append(acc.upper_bounds, Inf),
                      structure |-> Append(acc.structure, <<key, 1>>)])

Flatten(params) ==
    FlattenLoop(params, sorted(KeysOf(params)), 1,
                [type |-> "flat", p0 |-> <<>>, lower_bounds |-> <<>>, upper_bounds |-> <<>>,
                 structure |-> <<>>])

\* The rebuilding loop that makes every entry a tuple.
RECURSIVE Rebuild_always_tuple(_, _, _, _)
Rebuild_always_tuple(structure, param_values, k, idx) ==
    IF k > Len(structure) THEN <<>>
    ELSE LET key == structure[k][1]
             length == structure[k][2]
         IN <<Entry(key, Tuple(SubSeq(param_values, idx, idx + length - 1)))>>
            \o Rebuild_always_tuple(structure, param_values, k + 1, idx + length)

\* The loop of model_wrapper, and of the update after the solver: an entry
\* of length 1 becomes a scalar, any other a tuple.
RECURSIVE Rebuild(_, _, _, _)
Rebuild(structure, param_values, k, idx) ==
    IF k > Len(structure) THEN <<>>
    ELSE LET key == structure[k][1]
             length == structure[k][2]
         IN IF length = 1
            THEN <<Entry(key, Scalar(param_values[idx]))>>
                 \o Rebuild(structure, param_values, k + 1, idx + 1)
            ELSE <<Entry(key, Tuple(SubSeq(param_values, idx, idx + length - 1)))>>
                 \o Rebuild(structure, param_values, k + 1, idx + length)

\* param_dict of model_wrapper(frequency, *param_values)
param_dict(structure, param_values) == Rebuild(structure, param_values, 1, 1)

\* params after "params[key] = ..." for every key of structure
Updated(params, structure, popt) ==
    [i \in 1..Len(params) |->
        Entry(params[i].key, Get(Rebuild(structure, popt, 1, 1), params[i].key))]

\* params after the first k turns of the loop "params[key] = ..." over
\* structure: the keys already visited hold their fitted values.
StoredUpTo(params, structure, popt, k) ==
    [i \in 1..Len(params) |->
        IF \E j \in 1..k : structure[j][1] = params[i].key
        THEN Entry(params[i].key, Get(Rebuild(structure, popt, 1, 1), params[i].key))
        ELSE params[i]]

\* The solver accepts p0 only inside the bounds.
InBounds(F) ==
    \A i \in 1..Len(F.p0) : FLe(F.lower_bounds[i], F.p0[i]) /\ FLe(F.p0[i], F.upper_bounds[i])

\* r_squared = 1 - (ss_res / ss_tot) on numpy floats
r_squared(ss_res, ss_tot) == FSub(One, FDiv(ss_res, ss_tot))

\* Residual sums of squares: a perfect fit, a fair one, a bad one.
Residuals == {FZero(0), FromInt(2), FromInt(16)}

\* Total sums of squares of the data: zero when Z_exp is constant with equal
\* real and imaginary parts.
Totals == {FZero(0), FromInt(4)}

\* What the solver may return for the flattening F: the initial guess
\* itself or the lower corner of the bounds.
Solutions(F) == {F.p0, F.lower_bounds}

\* The frequencies handed to fit: a float (0) or an array of that many
\* entries.
FrequencyShapes == {0, 2, 3}

\* The exception of the first call of model_wrapper on frequencies of shape
\* n, NoResult when it returns.  The leaves are evaluated in order:
\* params[key] raises KeyError for a key the rebuilt mapping lacks;
\* "C, n = C_n" of the CPE raises TypeError for a value rebuilt as a scalar;
\* for a tuple under any other leaf "R + 0j" and "1j * omega * C" raise
\* TypeError on a float frequency, and np.full_like and the product with an
\* array raise ValueError unless the array has the length of the tuple.
\* On a float frequency the impedance is one number, and np.concatenate of
\* its real and imaginary parts raises ValueError.
RECURSIVE WrapperFailure(_, _, _, _)
WrapperFailure(leaves, rebuilt_params, n, i) ==
    IF i > Len(leaves)
    THEN IF n = 0 THEN Raise("ValueError", <<"concatenate">>) ELSE NoResult
    ELSE IF leaves[i] \notin KeysOf(rebuilt_params) THEN Raise("KeyError", leaves[i])
    ELSE IF Head(leaves[i]) = "Q"
    THEN IF Get(rebuilt_params, leaves[i]).shape # "tuple" THEN Raise("TypeError", <<>>)
         ELSE WrapperFailure(leaves, rebuilt_params, n, i + 1)
    ELSE IF Get(rebuilt_params, leaves[i]).shape = "tuple" /\ n = 0
    THEN Raise("TypeError", <<>>)
    ELSE IF Get(rebuilt_params, leaves[i]).shape = "tuple"
            /\ Len(Get(rebuilt_params, leaves[i]).v) # n
    THEN Raise("ValueError", <<"broadcast">>)
    ELSE WrapperFailure(leaves, rebuilt_params, n, i + 1)

\* The fit that puts the rebuilt initial guess into params before it calls
\* the solver.
params_after_fit_written_first(params, outcome) ==
    IF IsError(outcome)
    THEN [i \in 1..Len(params) |->
            Entry(params[i].key,
                  Get(Rebuild(Flatten(params).structure, Flatten(params).p0, 1, 1),
                      params[i].key))]
    ELSE outcome.params

\* params once fit has returned or raised: the loop "params[key] = ..." is
\* the last statement before the return, so an exception of curve_fit or of
\* the R^2 evaluation leaves params as it was passed in.
params_after_fit(params, outcome) ==
    IF IsError(outcome) THEN params ELSE outcome.params

\* The outcomes of node.fit(freq, Z_exp, params) on frequencies of shape n
\* and data whose total sum of squares is ss_tot.  The solver rejects bound
\* vectors that do not have the length of p0 and a p0 outside the bounds; it
\* then calls model_wrapper, whose exception ends the fit; after that it
\* fails to converge or returns some popt, and the mapping is updated in
\* place.
FitOutcomesOn(node, params, ss_tot, n) ==
    LET F == Flatten(params) IN
    IF Len(F.lower_bounds) # Len(F.p0) THEN {Raise("ValueError", <<"bounds">>)}
    ELSE IF ~InBounds(F) THEN {Raise("ValueError", <<"x0">>)}
    ELSE IF WrapperFailure(Leaves(node), param_dict(F.structure, F.p0), n, 1) # NoResult
    THEN {WrapperFailure(Leaves(node), param_dict(F.structure, F.p0), n, 1)}
    ELSE {Raise("RuntimeError", <<>>)} \cup
         { [type |-> "fitted",
            params |-> Updated(params, F.structure, popt),
            popt |-> popt,
            r_squared |-> r_squared(ss_res, ss_tot)] :
           popt \in Solutions(F), ss_res \in Residuals }

\* The outcomes of node.fit(freq, Z_exp, params) over the frequencies.
FitOutcomes(node, params, ss_tot) ==
    UNION {FitOutcomesOn(node, params, ss_tot, n) : n \in FrequencyShapes}

\* model_wrapper is reached once the solver has accepted p0 and the bounds.
WrapperCalled(F) == Len(F.lower_bounds) = Len(F.p0) /\ InBounds(F)

FitKeys == { <<"C","1">>, <<"Q","1">>, <<"R","1","0">>, <<"R","2">> }

FitValues ==
    { Scalar(One), Scalar(FZero(0)), Tuple(<<One>>), Tuple(<<Micro, Half>>),
      Tuple(<<Micro, Half, One>>) }

FitTexts == { <<"R","2">>, <<"Q","1","-","R","2">>, <<"R","1","0","|","R","2">> }

\* Most entries put into a mapping.
MaxKeys == 2

InitFit ==
    /\ text \in FitTexts
    /\ result = NoResult
    /\ circuit = parse_circuit(text)
    /\ values = <<>> /\ freq = NoResult /\ Z = NoResult
    /\ FitIdle
    /\ SelectIdle
    /\ WebIdle

\* params[key] = value, for a new key
Insert(key, value) ==
    /\ fitted = NoResult
    /\ Len(mapping) < MaxKeys
    /\ key \notin KeysOf(mapping)
    /\ mapping' = Append(mapping, Entry(key, value))
    /\ UNCHANGED <<given, flat, rebuilt, fitted, shared, parseVars, evalVars, selectVars, webVars>>

\* circuit.fit(freq, Z_exp, params)
Fit ==
    /\ fitted = NoResult
    /\ given' = Dict(mapping)
    /\ flat' = Flatten(mapping)
    /\ rebuilt' = IF WrapperCalled(Flatten(mapping))
                  THEN Dict(param_dict(Flatten(mapping).structure, Flatten(mapping).p0))
                  ELSE rebuilt
    /\ \E ss_tot \in Totals : \E outcome \in FitOutcomes(circuit, mapping, ss_tot) :
           /\ fitted' = outcome
           /\ mapping' = params_after_fit(mapping, outcome)
    /\ UNCHANGED <<shared, parseVars, evalVars, selectVars, webVars>>

NextFit ==
    \/ \E key \in FitKeys : \E value \in FitValues : Insert(key, value)
    \/ Fit

SpecFit == InitFit /\ [][NextFit]_vars

(***************************************************************************)
(* What the specification says of the codec.                               *)
(***************************************************************************)
\* The offset in p0 of the k-th entry of structure.
RECURSIVE Offset(_, _)
Offset(structure, k) == IF k = 1 THEN 0 ELSE Offset(structure, k - 1) + structure[k - 1][2]

SameShape(a, b) == a.shape = b.shape /\ Len(a.v) = Len(b.v)

\* A tuple of one entry has arity 1 and comes back as a scalar.
AsRebuilt(val) == IF val.shape = "tuple" /\ Len(val.v) = 1 THEN Scalar(val.v[1]) ELSE val

\* C8 (as amended): the mapping rebuilt inside fit and the mapping fit
\* returns have the keys of the input, and for every key a scalar stays a
\* scalar and a tuple of two or more entries stays a tuple of the same
\* length, while a tuple of one entry is rebuilt as a scalar; when the flat
\* values are unchanged the values are those of the input.
C8_RoundTrip ==
    /\ rebuilt.type = "dict" =>
           /\ KeysOf(rebuilt.items) = KeysOf(given.items)
           /\ Len(rebuilt.items) = Len(given.items)
           /\ \A key \in KeysOf(given.items) :
                  Get(rebuilt.items, key) = AsRebuilt(Get(given.items, key))
    /\ fitted.type = "fitted" =>
           /\ Len(fitted.params) = Len(given.items)
           /\ \A i \in 1..Len(given.items) :
                  /\ fitted.params[i].key = given.items[i].key
                  /\ SameShape(fitted.params[i].val, AsRebuilt(given.items[i].val))
                  /\ fitted.popt = flat.p0 =>
                         fitted.params[i].val = AsRebuilt(given.items[i].val)
           /\ mapping = fitted.params

\* C8 witness: fit returned for a mapping holding a tuple of two entries
\* and a tuple of one entry.
C8_Witness ==
    /\ fitted.type = "fitted"
    /\ \E i \in 1..Len(given.items) :
           given.items[i].val.shape = "tuple" /\ Len(given.items[i].val.v) = 2
    /\ \E i \in 1..Len(given.items) :
           given.items[i].val.shape = "tuple" /\ Len(given.items[i].val.v) = 1

\* C8 as stated: every key keeps its shape, tuples of any length included.
C8_ShapesPreserved ==
    /\ rebuilt.type = "dict" =>
           \A key \in KeysOf(given.items) :
               SameShape(Get(rebuilt.items, key), Get(given.items, key))
    /\ fitted.type = "fitted" =>
           \A i \in 1..Len(given.items) : SameShape(fitted.params[i].val, given.items[i].val)

\* The bounds of slot i of the flat vectors, if it has any.
SlotBounds(i) ==
    IF i <= Len(flat.lower_bounds) /\ i <= Len(flat.upper_bounds)
    THEN <<flat.lower_bounds[i], flat.upper_bounds[i]>>
    ELSE <<>>

\* C9: the flat vectors visit the keys in lexicographic order whatever the
\* insertion order; the slot of a scalar is bounded [eps, +inf), the slots of
\* a tuple under a 'Q' key [eps, +inf) and [eps, 1.0], every slot of another
\* tuple [eps, +inf); so the only slots with a finite upper bound are the
\* exponent slots of the 'Q' keys.
C9_BoundsPerSlot ==
    flat.type = "flat" =>
        /\ {flat.structure[k][1] : k \in 1..Len(flat.structure)} = KeysOf(given.items)
        /\ \A k \in 1..Len(flat.structure) : \A l \in 1..Len(flat.structure) :
               k < l => StrLess(flat.structure[k][1], flat.structure[l][1])
        /\ \A k \in 1..Len(flat.structure) :
               LET key == flat.structure[k][1]
                   val == Get(given.items, key)
                   off == Offset(flat.structure, k)
               IN IF val.shape = "scalar" THEN SlotBounds(off + 1) = <<Eps, Inf>>
                  ELSE IF Head(key) = "Q"
                  THEN /\ SlotBounds(off + 1) = <<Eps, Inf>>
                       /\ Len(val.v) >= 2 => SlotBounds(off + 2) = <<Eps, One>>
                  ELSE \A j \in 1..Len(val.v) : SlotBounds(off + j) = <<Eps, Inf>>
        /\ \A i \in 1..Len(flat.upper_bounds) :
               flat.upper_bounds[i] # Inf =>
                   \E k \in 1..Len(flat.structure) :
                       /\ Head(flat.structure[k][1]) = "Q"
                       /\ Get(given.items, flat.structure[k][1]).shape = "tuple"
                       /\ i = Offset(flat.structure, k) + 2

\* The entries of a mapping whose keys sort before key.
EntriesBefore(params, key) ==
    SelectSeq(params, LAMBDA e : StrLess(e.key, key))

\* C20: the initial guess, the lower bounds and the upper bounds handed to
\* the solver have one length, the sum of the recorded arities, and the
\* bounds of every key start at the slot where its guesses start, also when
\* the tuple of a 'Q' key does not have exactly two entries.
C20_VectorsAligned ==
    flat.type = "flat" =>
        /\ Len(flat.p0) = Offset(flat.structure, Len(flat.structure) + 1)
        /\ Len(flat.lower_bounds) = Len(flat.p0)
        /\ Len(flat.upper_bounds) = Len(flat.p0)
        /\ \A k \in 1..Len(flat.structure) :
               LET before == Flatten(EntriesBefore(given.items, flat.structure[k][1]))
               IN /\ Len(before.lower_bounds) = Offset(flat.structure, k)
                  /\ Len(before.upper_bounds) = Offset(flat.structure, k)

\* C21: when fit raises (the solver rejects the bounds or the initial guess,
\* model_wrapper raises, or the solver does not converge) the outcome is
\* that exception and the mapping passed in holds the keys and values it
\* had at the call.
C21_FailureLeavesMapping ==
    (fitted # NoResult /\ IsError(fitted)) =>
        /\ fitted.error \in {"ValueError", "KeyError", "TypeError", "RuntimeError"}
        /\ mapping = given.items

\* A fit that failed on a mapping whose rebuilt form differs from it: the
\* solver did not converge on {"R2": (1.0,)}.
C21_Witness ==
    /\ fitted # NoResult /\ IsError(fitted) /\ fitted.error = "RuntimeError"
    /\ given.type = "dict" /\ Len(given.items) >= 1
    /\ \E i \in 1..Len(given.items) :
           given.items[i].val.shape = "tuple" /\ Len(given.items[i].val.v) = 1
    /\ mapping = given.items

(***************************************************************************)
(* best_model: the candidates are tried in list order, each one parsed and *)
(* fitted, and the one with the greatest R squared is kept.  A candidate   *)
(* is a pair of a circuit text and a reference to a parameter mapping on   *)
(* the heap; fit updates that mapping in place.                            *)
(***************************************************************************)
None == [type |-> "None"]

\* (model, params)
Candidate(model, pid) == [model |-> model, params |-> pid]

\* best_model = (model, r_squared)
Pair(model, score) == [type |-> "pair", model |-> model, r_squared |-> score]

\* "if best_model is None": warnings.warn of a RuntimeWarning whose text
\* lists the failed models with their errors.  Under the default filter a
\* warning is shown the first time its text is issued from this line and
\* dropped afterwards; shown is the set of texts already seen.
Warn(s, shown) ==
    IF s.best_model = None
    THEN [s EXCEPT !.warned = TRUE, !.error_summary = s.failed_models,
                   !.surfaced = (s.failed_models \notin shown)]
    ELSE s

\* The registry of the warnings module after the warning of Warn.
Registered(s, shown) == IF s.best_model = None THEN shown \cup {s.failed_models} ELSE shown

\* The locals of best_model as a call starts.
Locals(ss_tot, call) ==
    [type |-> "select", ss_tot |-> ss_tot, idx |-> 1, call |-> call,
     best_r_squared |-> FInf(1), best_model |-> None, best_params |-> None,
     failed_models |-> <<>>, log |-> <<>>,
     warned |-> FALSE, error_summary |-> <<>>, surfaced |-> FALSE,
     returned |-> FALSE]

\* Most calls of best_model on one list.
MaxCalls == 2

\* The loop body without the record of a failure.
Iterate_failure_not_recorded(s, candidate, tree, outcome) ==
    IF IsError(tree) \/ IsError(outcome)
    THEN [s EXCEPT !.idx = @ + 1,
                   !.log = Append(@, [level |-> "warning", model |-> candidate.model])]
    ELSE IF FGt(outcome.r_squared, s.best_r_squared)
    THEN [s EXCEPT !.idx = @ + 1,
                   !.best_r_squared = outcome.r_squared,
                   !.best_model = Pair(candidate.model, outcome.r_squared),
                   !.best_params = [type |-> "ref", pid |-> candidate.params],
                   !.log = Append(@, [level |-> "info", model |-> candidate.model,
                                      r_squared |-> outcome.r_squared])]
    ELSE [s EXCEPT !.idx = @ + 1,
                   !.log = Append(@, [level |-> "info", model |-> candidate.model,
                                      r_squared |-> outcome.r_squared])]

\* One iteration of the loop on the candidate models[idx]; outcome is what
\* circuit.fit did.
Iterate(s, candidate, tree, outcome) ==
    IF IsError(tree)
    THEN [s EXCEPT !.idx = @ + 1,
                   !.log = Append(@, [level |-> "warning", model |-> candidate.model]),
                   !.failed_models = Append(@, <<candidate.model, tree>>)]
    ELSE IF IsError(outcome)
    THEN [s EXCEPT !.idx = @ + 1,
                   !.log = Append(@, [level |-> "warning", model |-> candidate.model]),
                   !.failed_models = Append(@, <<candidate.model, outcome>>)]
    ELSE IF FGt(outcome.r_squared, s.best_r_squared)
    THEN [s EXCEPT !.idx = @ + 1,
                   !.best_r_squared = outcome.r_squared,
                   !.best_model = Pair(candidate.model, outcome.r_squared),
                   !.best_params = [type |-> "ref", pid |-> candidate.params],
                   !.log = Append(@, [level |-> "info", model |-> candidate.model,
                                      r_squared |-> outcome.r_squared])]
    ELSE [s EXCEPT !.idx = @ + 1,
                   !.log = Append(@, [level |-> "info", model |-> candidate.model,
                                      r_squared |-> outcome.r_squared])]

SelectTexts == { <<"R","1">>, <<"R","1","-","C","1">>, <<"X","1">> }

\* The mappings the candidates refer to.
InitialHeap ==
    << <<Entry(<<"R","1">>, Scalar(One))>>,
       <<Entry(<<"R","1">>, Scalar(FromInt(2))), Entry(<<"C","1">>, Scalar(Micro))>> >>

Candidates == {Candidate(model, pid) : model \in SelectTexts, pid \in DOMAIN InitialHeap}

\* Most candidates in the list.
MaxModels == 2

Lists(n) == UNION {[1..m -> Candidates] : m \in 1..n}

InitSelect ==
    /\ text = <<>> /\ result = NoResult
    /\ EvalIdle
    /\ FitIdle
    /\ WebIdle
    /\ models \in Lists(MaxModels)
    /\ heap = InitialHeap
    /\ sel \in {Locals(ss_tot, 1) : ss_tot \in Totals}
    /\ registry = {}

\* The body of "for model, params in models"
Attempt ==
    /\ sel.idx <= Len(models)
    /\ LET candidate == models[sel.idx]
           tree == parse_circuit(candidate.model)
       IN IF IsError(tree)
          THEN /\ sel' = Iterate(sel, candidate, tree, None)
               /\ UNCHANGED heap
          ELSE \E outcome \in FitOutcomes(tree, heap[candidate.params], sel.ss_tot) :
                   /\ sel' = Iterate(sel, candidate, tree, outcome)
                   /\ heap' = IF IsError(outcome) THEN heap
                              ELSE [heap EXCEPT ![candidate.params] = outcome.params]
    /\ UNCHANGED <<models, registry, parseVars, evalVars, fitVars, webVars>>

\* The end of best_model: the warning when nothing was kept, and the return.
Return ==
    /\ sel.idx > Len(models)
    /\ ~sel.returned
    /\ sel' = [Warn(sel, registry) EXCEPT !.returned = TRUE]
    /\ registry' = Registered(sel, registry)
    /\ UNCHANGED <<models, heap, parseVars, evalVars, fitVars, webVars>>

\* best_model is called again with the same list and the same data.
CallAgain ==
    /\ sel.returned
    /\ sel.call < MaxCalls
    /\ sel' = Locals(sel.ss_tot, sel.call + 1)
    /\ UNCHANGED <<models, heap, registry, parseVars, evalVars, fitVars, webVars>>

NextSelect ==
    \/ Attempt
    \/ Return
    \/ CallAgain

SpecSelect == InitSelect /\ [][NextSelect]_vars

(***************************************************************************)
(* What the specification says of the selection.                           *)
(***************************************************************************)
IsInfo(entry) == entry.level = "info"

\* The candidates fitted without error, in list order, with their scores.
Successes == SelectSeq(sel.log, IsInfo)

\* C10: best_model returns a winner whenever one candidate at least was
\* parsed and fitted without error, and the winner is the successful
\* candidate with the greatest R squared, the earliest among equal scores,
\* whatever the scores are (minus infinity and not-a-number included).
C10_WinnerIsBestSuccess ==
    (sel.type = "select" /\ sel.returned /\ Successes # <<>>) =>
        /\ sel.best_model.type = "pair"
        /\ ~sel.warned
        /\ \E i \in 1..Len(Successes) :
               /\ sel.best_model.model = Successes[i].model
               /\ sel.best_model.r_squared = Successes[i].r_squared
               /\ \A j \in 1..Len(Successes) :
                      ~FGt(Successes[j].r_squared, Successes[i].r_squared)
               /\ \A j \in 1..(i - 1) : Successes[j].r_squared # Successes[i].r_squared

\* C11: the mapping best_model returns holds the values fitted for the
\* winning candidate: once a candidate is kept as the best one, and as long
\* as no later candidate replaces it, the mapping that best_params refers to
\* is not changed by the later candidates, whether they are fitted or fail.
C11_WinnerValuesKept ==
    [][ (sel.type = "select" /\ sel.best_params.type = "ref"
         /\ sel'.best_model = sel.best_model)
        => heap'[sel.best_params.pid] = heap[sel.best_params.pid] ]_vars

IsWarning(entry) == entry.level = "warning"

\* The candidates that raised, in list order.
Failures == SelectSeq(sel.log, IsWarning)

\* C12: a failing candidate never aborts selection: the candidates are
\* attempted in list order, one log record each; a candidate whose parse or
\* fit raises is recorded in failed_models with its circuit text and its
\* error, in order; the candidates after it are attempted all the same, and
\* best_model returns only after the last one.
C12_FailureDoesNotAbort ==
    sel.type = "select" =>
        /\ Len(sel.log) = sel.idx - 1
        /\ sel.idx <= Len(models) + 1
        /\ \A i \in 1..Len(sel.log) :
               /\ sel.log[i].model = models[i].model
               /\ IsError(parse_circuit(models[i].model)) => sel.log[i].level = "warning"
        /\ Len(sel.failed_models) = Len(Failures)
        /\ \A k \in 1..Len(Failures) :
               /\ sel.failed_models[k][1] = Failures[k].model
               /\ IsError(sel.failed_models[k][2])
               /\ IsError(parse_circuit(Failures[k].model)) =>
                      sel.failed_models[k][2] = parse_circuit(Failures[k].model)
        /\ sel.returned => sel.idx = Len(models) + 1

\* C12 witness: best_model has returned a winner fitted after a candidate
\* that failed.
C12_Witness ==
    /\ sel.type = "select" /\ sel.returned
    /\ Len(models) = 2
    /\ sel.log[1].level = "warning"
    /\ sel.log[2].level = "info"
    /\ sel.best_model.type = "pair"
    /\ Len(sel.failed_models) = 1

\* C13: when every candidate has failed, best_model surfaces to its caller
\* an aggregate failure that lists one entry per candidate, in list order,
\* with the candidate's text and its error, and returns no winner; and it
\* never returns without a winner unless that failure was surfaced.
C13_AggregateFailure ==
    (sel.type = "select" /\ sel.returned) =>
        /\ Len(Failures) = Len(models) =>
               /\ sel.surfaced
               /\ Len(sel.error_summary) = Len(models)
               /\ \A i \in 1..Len(models) :
                      /\ sel.error_summary[i][1] = models[i].model
                      /\ IsError(sel.error_summary[i][2])
               /\ sel.best_model = None
               /\ sel.best_params = None
        /\ sel.best_model = None => sel.surfaced

(***************************************************************************)
(* The conversion between the nested parameter form and the flat UI form.  *)
(* Both are dicts: sequences of entries in insertion order.  A number of   *)
(* the flat form is a float or an int (JSON); float(x) makes it a float.   *)
(***************************************************************************)
PyInt(n) == [c |-> "int", n |-> n]

\* float(x)
float(x) == IF x.c = "int" THEN FromInt(x.n) ELSE x

\* d[key] = val
SetItem(d, key, val) ==
    IF key \in KeysOf(d)
    THEN [i \in 1..Len(d) |-> IF d[i].key = key THEN Entry(key, val) ELSE d[i]]
    ELSE Append(d, Entry(key, val))

\* key.endswith(suffix)
endswith(key, suffix) ==
    /\ Len(key) >= Len(suffix)
    /\ SubSeq(key, Len(key) - Len(suffix) + 1, Len(key)) = suffix

\* The default exponent 0.9 of a CPE
DefaultN == FFin(0, <<3277, 13107, 3276, 1843>>, -53)

\* The while loop of web_to_internal_params.
RECURSIVE WebLoop(_, _, _, _)
WebLoop(params_web, param_names, i, params) ==
    IF i > Len(param_names) THEN Dict(params)
    ELSE LET key == param_names[i] IN
         IF endswith(key, <<"_", "n">>) THEN WebLoop(params_web, param_names, i + 1, params)
         ELSE IF endswith(key, <<"_", "B">>) THEN WebLoop(params_web, param_names, i + 1, params)
         ELSE IF key = <<>> THEN Raise("IndexError", <<>>)
         ELSE IF Head(key) = "Q"
         THEN IF key \notin KeysOf(params_web) THEN Raise("KeyError", key)
              ELSE LET q_value == float(Get(params_web, key).v[1])
                       n_key == key \o <<"_", "n">>
                       n_value == IF n_key \in KeysOf(params_web)
                                  THEN float(Get(params_web, n_key).v[1])
                                  ELSE DefaultN
                   IN WebLoop(params_web, param_names, i + 1,
                              SetItem(params, key, Tuple(<<q_value, n_value>>)))
         ELSE IF Head(key) = "S" \/ Head(key) = "O"
         THEN IF key \notin KeysOf(params_web) THEN Raise("KeyError", key)
              ELSE LET b_key == key \o <<"_", "B">> IN
                   IF b_key \notin KeysOf(params_web) THEN Raise("KeyError", b_key)
                   ELSE WebLoop(params_web, param_names, i + 1,
                                SetItem(params, key,
                                        Tuple(<<float(Get(params_web, key).v[1]),
                                                float(Get(params_web, b_key).v[1])>>)))
         ELSE IF key \notin KeysOf(params_web) THEN Raise("KeyError", key)
         ELSE WebLoop(params_web, param_names, i + 1,
                      SetItem(params, key, Scalar(float(Get(params_web, key).v[1]))))

web_to_internal_params(params_web, param_names) == WebLoop(params_web, param_names, 1, <<>>)

\* The for loop of internal_to_web_params.
RECURSIVE InternalLoop(_, _, _)
InternalLoop(params_internal, i, params_web) ==
    IF i > Len(params_internal) THEN Dict(params_web)
    ELSE LET key == params_internal[i].key
             val == params_internal[i].val
         IN IF val.shape = "tuple"
            THEN IF key = <<>> THEN Raise("IndexError", <<>>)
                 ELSE LET second ==
                              IF Head(key) = "Q"
                              THEN SetItem(params_web, key \o <<"_", "n">>, Scalar(float(val.v[2])))
                              ELSE IF Head(key) = "S" \/ Head(key) = "O"
                              THEN SetItem(params_web, key \o <<"_", "B">>, Scalar(float(val.v[2])))
                              ELSE params_web
                      IN InternalLoop(params_internal, i + 1,
                                      SetItem(second, key, Scalar(float(val.v[1]))))
            ELSE InternalLoop(params_internal, i + 1,
                              SetItem(params_web, key, Scalar(float(val.v[1]))))

internal_to_web_params(params_internal) == InternalLoop(params_internal, 1, <<>>)

\* list(d.keys())
NamesOf(d) == [i \in 1..Len(d) |-> d[i].key]

\* a == b on numbers and tuples of numbers
ValueEq(a, b) ==
    /\ a.shape = b.shape
    /\ Len(a.v) = Len(b.v)
    /\ \A j \in 1..Len(a.v) : float(a.v[j]) = float(b.v[j])

\* a == b on dicts
DictEq(a, b) ==
    /\ KeysOf(a) = KeysOf(b)
    /\ \A key \in KeysOf(a) : ValueEq(Get(a, key), Get(b, key))

WebKeys ==
    { <<"R","1">>, <<"Q","1">>, <<"Q","1","_","n">>, <<"S","1">>, <<"S","1","_","B">>,
      <<"C","1","_","n">> }

Numbers == {PyInt(2), Half, Micro}

Pairs == {Tuple(<<Micro, Half>>), Tuple(<<PyInt(2), Micro>>)}

\* The values a key may hold in each form.
WebValues(form, key) ==
    IF form = "nested" /\ Head(key) \in {"Q", "S", "O"} THEN Pairs
    ELSE {Scalar(x) : x \in Numbers}

\* Most entries of a mapping to convert.
MaxEntries == 3

InitWeb ==
    /\ text = <<>> /\ result = NoResult
    /\ EvalIdle
    /\ FitIdle
    /\ SelectIdle
    /\ web \in { [type |-> "web", form |-> form, input |-> <<>>,
                  there |-> NoResult, back |-> NoResult] : form \in {"nested", "flat"} }
    /\ api = NoResult

\* The caller adds an entry to the mapping.
WebPut(key, val) ==
    /\ web.there = NoResult
    /\ Len(web.input) < MaxEntries
    /\ key \notin KeysOf(web.input)
    /\ web' = [web EXCEPT !.input = Append(@, Entry(key, val))]
    /\ UNCHANGED <<api, parseVars, evalVars, fitVars, selectVars>>

\* The mapping is converted to the other form.
Convert ==
    /\ web.there = NoResult
    /\ web' = [web EXCEPT !.there =
                   IF web.form = "nested" THEN internal_to_web_params(web.input)
                   ELSE web_to_internal_params(web.input, NamesOf(web.input))]
    /\ UNCHANGED <<api, parseVars, evalVars, fitVars, selectVars>>

\* The converted mapping is converted back.
ConvertBack ==
    /\ web.there # NoResult
    /\ web.back = NoResult
    /\ web' = [web EXCEPT !.back =
                   IF IsError(web.there) THEN web.there
                   ELSE IF web.form = "nested"
                   THEN web_to_internal_params(web.there.items, NamesOf(web.there.items))
                   ELSE internal_to_web_params(web.there.items)]
    /\ UNCHANGED <<api, parseVars, evalVars, fitVars, selectVars>>

NextWeb ==
    \/ \E key \in WebKeys : \E val \in WebValues(web.form, key) : WebPut(key, val)
    \/ Convert
    \/ ConvertBack

SpecWeb == InitWeb /\ [][NextWeb]_vars

\* C14: the conversion is a bijection: a nested mapping converted to the
\* flat form and back, and a flat mapping converted to the nested form and
\* back, is the mapping one started from: no entry is dropped, defaulted or
\* invented.
C14_Bijection ==
    (web.type = "web" /\ web.back # NoResult) =>
        /\ web.back.type = "dict"
        /\ DictEq(web.back.items, web.input)

(***************************************************************************)
(* fit_models_api: every submitted model is converted, parsed, fitted and  *)
(* evaluated inside its own try block, and the index of the best one is    *)
(* tracked; the response carries the list of results.                      *)
(***************************************************************************)
\* A model configuration of the request.
Config(circuit_string, param_names, initial_guess) ==
    [has_circuit |-> TRUE, circuit |-> circuit_string, param_names |-> param_names,
     initial_guess |-> initial_guess]

\* A model configuration without the key "circuit".
ConfigWithoutCircuit(param_names, initial_guess) ==
    [has_circuit |-> FALSE, circuit |-> <<>>, param_names |-> param_names,
     initial_guess |-> initial_guess]

\* params as the mapping indexed by impedance
AsParams(d) == [key \in KeysOf(d) |-> Get(d, key)]

\* The frequencies of the request.
ApiFrequencies == [mode |-> "array", f |-> <<One, FromInt(1000)>>]

\* The end of the try block: the result appended for a fitted model.
TryResult(model_config, outcome, Z_fit, fitted_params_web) ==
    IF IsError(Z_fit) THEN Z_fit
    ELSE IF IsError(fitted_params_web) THEN fitted_params_web
    ELSE [type |-> "result", success |-> TRUE,
          circuit |-> model_config.circuit,
          fitted_params |-> fitted_params_web.items,
          r_squared |-> outcome.r_squared,
          fitted |-> Z_fit.z]

\* The try block after circuit.fit, whose outcome is given: the fitted
\* impedance, and the fitted parameters in the flat form.
TryFitted(model_config, tree, outcome) ==
    IF IsError(outcome) THEN outcome
    ELSE TryResult(model_config, outcome,
                   Evaluate(tree, ApiFrequencies, AsParams(outcome.params)),
                   internal_to_web_params(outcome.params))

\* The try block after the conversion of the initial guess and the parse.
TryParsed(model_config, ss_tot, initial_params, tree) ==
    IF IsError(initial_params) THEN {initial_params}
    ELSE IF IsError(tree) THEN {tree}
    ELSE {TryFitted(model_config, tree, outcome) :
              outcome \in FitOutcomesOn(tree, initial_params.items, ss_tot,
                                        Len(ApiFrequencies.f))}

\* The try block of one model: the errors it may raise and the results it
\* may append, on data whose total sum of squares is ss_tot.
TryModel(model_config, ss_tot) ==
    IF ~model_config.has_circuit THEN {Raise("KeyError", <<"circuit">>)}
    ELSE TryParsed(model_config, ss_tot,
                   web_to_internal_params(model_config.initial_guess,
                                          model_config.param_names),
                   parse_circuit(model_config.circuit))

\* One iteration of "for idx, model_config in enumerate(models_to_fit)".
\* The except block reads model_config["circuit"] again: when that key is
\* missing the KeyError leaves the loop and the outer except answers.
ApiIterate(a, model_config, tried) ==
    IF ~IsError(tried)
    THEN IF FGt(tried.r_squared, a.best_r2)
         THEN [a EXCEPT !.idx = @ + 1, !.best_r2 = tried.r_squared,
                        !.best_model_idx = a.idx,
                        !.results = Append(@, tried)]
         ELSE [a EXCEPT !.idx = @ + 1, !.results = Append(@, tried)]
    ELSE IF ~model_config.has_circuit
    THEN [a EXCEPT !.response = [success |-> FALSE, status |-> 400, error |-> tried]]
    ELSE [a EXCEPT !.idx = @ + 1,
                   !.results = Append(@, [type |-> "result", success |-> FALSE,
                                          circuit |-> model_config.circuit,
                                          error |-> tried])]

ApiConfigs ==
    { Config(<<"R","1">>, << <<"R","1">> >>, <<Entry(<<"R","1">>, Scalar(PyInt(2)))>>),
      Config(<<"R","1","-","C","1">>, << <<"R","1">>, <<"C","1">> >>,
             <<Entry(<<"R","1">>, Scalar(One)), Entry(<<"C","1">>, Scalar(Micro))>>),
      Config(<<"Q","1">>, << <<"Q","1">>, <<"Q","1","_","n">> >>,
             <<Entry(<<"Q","1">>, Scalar(Micro)), Entry(<<"Q","1","_","n">>, Scalar(Half))>>),
      Config(<<"X","1">>, << <<"X","1">> >>, <<Entry(<<"X","1">>, Scalar(One))>>),
      Config(<<"R","1">>, << <<"R","1">> >>, <<>>),
      ConfigWithoutCircuit(<< <<"R","1">> >>, <<Entry(<<"R","1">>, Scalar(One))>>) }

\* Most models in a request.
MaxConfigs == 2

InitApi ==
    /\ text = <<>> /\ result = NoResult
    /\ EvalIdle
    /\ FitIdle
    /\ SelectIdle
    /\ web = NoResult
    /\ api \in { [type |-> "api", models |-> models_to_fit, ss_tot |-> ss_tot, idx |-> 0,
                  results |-> <<>>, best_r2 |-> FInf(1), best_model_idx |-> 0,
                  response |-> NoResult] :
                 models_to_fit \in UNION {[1..m -> ApiConfigs] : m \in 1..MaxConfigs},
                 ss_tot \in Totals }

\* The body of the loop for the model at index idx.
ApiAttempt ==
    /\ api.response = NoResult
    /\ api.idx < Len(api.models)
    /\ \E tried \in TryModel(api.models[api.idx + 1], api.ss_tot) :
           api' = ApiIterate(api, api.models[api.idx + 1], tried)
    /\ UNCHANGED <<web, parseVars, evalVars, fitVars, selectVars>>

\* return jsonify({"success": True, "results": results, ...})
Respond ==
    /\ api.response = NoResult
    /\ api.idx = Len(api.models)
    /\ api' = [api EXCEPT !.response =
                   [success |-> TRUE, status |-> 200, results |-> api.results,
                    best_model_index |-> api.best_model_idx,
                    best_r_squared |-> api.best_r2]]
    /\ UNCHANGED <<web, parseVars, evalVars, fitVars, selectVars>>

NextApi ==
    \/ ApiAttempt
    \/ Respond

SpecApi == InitApi /\ [][NextApi]_vars

\* The indexes (from 0) of the results marked success.
Succeeded(results) == {i \in 0..(Len(results) - 1) : results[i + 1].success}

\* C15: the response of fit_models_api holds one result per submitted model,
\* in submission order, each marked success or failure; best_model_index
\* designates a result marked success whose R squared is the greatest among
\* the successful ones, the first on ties; and when no model succeeded no
\* model is designated.
C15_BestIsASuccess ==
    (api.type = "api" /\ api.response # NoResult) =>
        /\ api.response.success
        /\ Len(api.response.results) = Len(api.models)
        /\ \A i \in 1..Len(api.models) :
               api.response.results[i].circuit = api.models[i].circuit
        /\ LET results == api.response.results
               best == api.response.best_model_index
           IN IF Succeeded(results) = {} THEN best = None
              ELSE /\ best \in Succeeded(results)
                   /\ \A j \in Succeeded(results) :
                          /\ ~FGt(results[j + 1].r_squared, results[best + 1].r_squared)
                          /\ j < best =>
                                 results[j + 1].r_squared # results[best + 1].r_squared

(***************************************************************************)
(* Concurrent calls of fit on one tree.  Each call has its own parameter   *)
(* mapping and its own locals; it reads the mapping when it flattens it,   *)
(* reads the tree inside the solver, and writes its own mapping at the     *)
(* end.  The steps of the calls interleave in any order.                   *)
(***************************************************************************)
\* Most concurrent calls.
MaxThreads == 2

Threads == 1..MaxThreads

\* The mapping of call p: its own values, or a resistance of zero that the
\* solver refuses.
ShareParams(p, feasible) ==
    <<Entry(<<"R","1">>, Scalar(IF feasible THEN FromInt(p) ELSE FZero(0))),
      Entry(<<"C","1">>, Scalar(Micro))>>

ShareTexts == { <<"R","1","-","C","1">>, <<"R","1","|","C","1">> }

\* All calls write the one mapping they would share.
Store_shared(params, p, value) == [q \in DOMAIN params |-> value]

\* "params[key] = ..." of call p: the write goes to the mapping p was given.
Store(params, p, value) == [params EXCEPT ![p] = value]

InitShare ==
    /\ text \in ShareTexts
    /\ result = NoResult
    /\ EvalIdle
    /\ mapping = <<>> /\ given = NoResult /\ flat = NoResult
    /\ rebuilt = NoResult /\ fitted = NoResult
    /\ SelectIdle
    /\ WebIdle
    /\ \E feasible \in [Threads -> BOOLEAN] : \E ss_tot \in Totals :
           shared = [type |-> "shared",
                     tree |-> parse_circuit(text),
                     tree0 |-> parse_circuit(text),
                     ss_tot |-> ss_tot,
                     params |-> [p \in Threads |-> ShareParams(p, feasible[p])],
                     params0 |-> [p \in Threads |-> ShareParams(p, feasible[p])],
                     pc |-> [p \in Threads |-> "idle"],
                     read |-> [p \in Threads |-> <<>>],
                     solved |-> [p \in Threads |-> NoResult],
                     stored |-> [p \in Threads |-> 0],
                     returned |-> [p \in Threads |-> NoResult]]

\* Call p starts: the loop over sorted(params.keys()) reads its mapping.
Begin(p) ==
    /\ shared.pc[p] = "idle"
    /\ shared' = [shared EXCEPT !.pc[p] = "fitting", !.read[p] = shared.params[p]]
    /\ UNCHANGED <<mapping, given, flat, rebuilt, fitted, parseVars, evalVars, selectVars, webVars>>

\* curve_fit of call p: it works on the locals p0 and bounds and reads the
\* tree through model_wrapper; it raises or returns popt.
Solve(p) ==
    /\ shared.pc[p] = "fitting"
    /\ \E outcome \in FitOutcomes(shared.tree, shared.read[p], shared.ss_tot) :
           shared' = IF IsError(outcome)
                     THEN [shared EXCEPT !.pc[p] = "done", !.returned[p] = outcome]
                     ELSE [shared EXCEPT !.pc[p] = "solved", !.solved[p] = outcome]
    /\ UNCHANGED <<mapping, given, flat, rebuilt, fitted, parseVars, evalVars, selectVars, webVars>>

\* One turn of the loop "params[key] = ..." of call p: the stores follow
\* structure, one key at a time, and other calls run between two of them.
Write(p) ==
    /\ shared.pc[p] = "solved"
    /\ shared.stored[p] < Len(Flatten(shared.read[p]).structure)
    /\ shared' = [shared EXCEPT
                     !.stored[p] = shared.stored[p] + 1,
                     !.params = Store(shared.params, p,
                                      StoredUpTo(shared.params[p],
                                                 Flatten(shared.read[p]).structure,
                                                 shared.solved[p].popt,
                                                 shared.stored[p] + 1))]
    /\ UNCHANGED <<mapping, given, flat, rebuilt, fitted, parseVars, evalVars, selectVars, webVars>>

\* The end of call p: "return params, r_squared" once every key is stored.
Finish(p) ==
    /\ shared.pc[p] = "solved"
    /\ shared.stored[p] = Len(Flatten(shared.read[p]).structure)
    /\ shared' = [shared EXCEPT !.pc[p] = "done",
                                !.returned[p] = [shared.solved[p] EXCEPT
                                                    !.params = shared.params[p]]]
    /\ UNCHANGED <<mapping, given, flat, rebuilt, fitted, parseVars, evalVars, selectVars, webVars>>

NextShare ==
    \E p \in Threads :
        \/ Begin(p)
        \/ Solve(p)
        \/ Write(p)
        \/ Finish(p)

SpecShare == InitShare /\ [][NextShare]_vars

\* C16: fit and impedance never modify the tree, so whatever the
\* interleaving of the calls that share it, the tree stays as it was built,
\* and every call that has ended has returned one of the results it can
\* return when it runs alone on its own mapping; the mapping of a call is
\* written by that call only: until its solver has returned it is as it was
\* passed in, and during the stores every key holds its initial or its
\* fitted value.
C16_SharedTreeUnchanged ==
    shared.type = "shared" =>
        /\ shared.tree = shared.tree0
        /\ \A p \in Threads :
               /\ shared.pc[p] = "done" =>
                      /\ shared.returned[p] \in
                             FitOutcomes(shared.tree0, shared.params0[p], shared.ss_tot)
                      /\ shared.params[p] = IF IsError(shared.returned[p])
                                            THEN shared.params0[p]
                                            ELSE shared.returned[p].params
               /\ shared.pc[p] \in {"idle", "fitting"} => shared.params[p] = shared.params0[p]
               /\ shared.pc[p] = "solved" =>
                      \E k \in 0..Len(shared.params0[p]) :
                          shared.params[p] =
                              StoredUpTo(shared.params0[p], Flatten(shared.params0[p]).structure,
                                         shared.solved[p].popt, k)

\* C16 witness: call 1 has returned fitted values and written its mapping
\* while call 2 is in flight: it has read the tree in the solver and has
\* stored the first of its two keys.
C16_Witness ==
    /\ shared.type = "shared"
    /\ shared.pc[1] = "done"
    /\ shared.returned[1].type = "fitted"
    /\ shared.params[1] # shared.params0[1]
    /\ shared.pc[2] = "solved"
    /\ shared.stored[2] = 1
    /\ shared.solved[2].popt # Flatten(shared.params0[2]).p0
    /\ shared.params[2] # shared.params0[2]
    /\ shared.params[2] # Updated(shared.params0[2], Flatten(shared.params0[2]).structure,
                                  shared.solved[2].popt)

(***************************************************************************)
(* validate_circuit_string (web/validation.py): the text is parsed, and    *)
(* when the parser returns the parameter names are read off the text with  *)
(* the pattern [RCLWQSO]\d+.                                               *)
(***************************************************************************)
IsDigit(c) == \E i \in 1..Len(Digits) : Digits[i] = c

\* The end of the run of digits that starts at s[i].
RECURSIVE DigitsEnd(_, _)
DigitsEnd(s, i) == IF i < Len(s) /\ IsDigit(s[i + 1]) THEN DigitsEnd(s, i + 1) ELSE i

\* re.findall(r"[RCLWQSO]\d+", s) from position i: the matches from left to
\* right, each taken as long as it can be, none overlapping another.
RECURSIVE findall(_, _)
findall(s, i) ==
    IF i > Len(s) THEN <<>>
    ELSE IF s[i] \in {"R", "C", "L", "W", "Q", "S", "O"} /\ i < Len(s) /\ IsDigit(s[i + 1])
    THEN <<SubSeq(s, i, DigitsEnd(s, i + 1))>> \o findall(s, DigitsEnd(s, i + 1) + 1)
    ELSE findall(s, i + 1)

\* The names appended for one element of the text.
ElementNames(elem) ==
    IF Head(elem) = "Q" THEN <<elem, elem \o <<"_", "n">> >>
    ELSE IF Head(elem) \in {"S", "O"} THEN <<elem, elem \o <<"_", "B">> >>
    ELSE <<elem>>

\* The loop over sorted(set(elements)).
RECURSIVE param_names_of(_, _)
param_names_of(elems, i) ==
    IF i > Len(elems) THEN <<>> ELSE ElementNames(elems[i]) \o param_names_of(elems, i + 1)

\* validate_circuit_string(circuit_string): every exception of the parser is
\* caught and reported.
validate_circuit_string(circuit_string) ==
    LET tree == parse_circuit(circuit_string)
        elements == findall(circuit_string, 1)
    IN IF IsError(tree)
       THEN [type |-> "validation", valid |-> FALSE, params |-> <<>>, error |-> tree]
       ELSE [type |-> "validation", valid |-> TRUE,
             params |-> param_names_of(sorted({elements[i] : i \in 1..Len(elements)}), 1),
             error |-> NoResult]

\* The characters typed into the circuit field.
ValidateAlphabet == {"R", "Q", "S", "1", "2", "-", "|", "A", " "}

\* Circuit texts of the documentation, and identifiers with and without
\* digits.
ValidateSeeds ==
    { <<>>,
      <<"R","1","-","Q","1","|","(","R","2","-","W","1",")">>,
      <<"R","1","0","-","R","2">>,
      <<"R","A","-","C","1">> }

\* Most characters of a typed text.
MaxText == 4

InitValidate ==
    text \in ValidateSeeds /\ result = NoResult /\ EvalIdle /\ FitIdle /\ SelectIdle /\ WebIdle

\* A character typed into the circuit field.
TypeText(c) ==
    /\ Len(text) < MaxText
    /\ text' = Append(text, c)
    /\ result' = NoResult
    /\ web' = NoResult
    /\ UNCHANGED <<api, evalVars, fitVars, selectVars>>

\* validate_circuit_string(text); result is the tree of the same text.
Validate ==
    /\ web = NoResult
    /\ result' = parse_circuit(text)
    /\ web' = validate_circuit_string(text)
    /\ UNCHANGED <<text, api, evalVars, fitVars, selectVars>>

NextValidate == (\E c \in ValidateAlphabet : TypeText(c)) \/ Validate

SpecValidate == InitValidate /\ [][NextValidate]_vars

\* The flat-form names of a set of element keys.
FlatNames(keys) ==
    keys \cup {key \o <<"_", "n">> : key \in {k \in keys : Head(k) = "Q"}}
         \cup {key \o <<"_", "B">> : key \in {k \in keys : Head(k) \in {"S", "O"}}}

\* C22: for a text reported valid the reported names are the flat-form names
\* of the element keys of the parsed tree, each once, whether the
\* identifiers are numeric or not.
C22_NamesAreTreeKeys ==
    (web # NoResult /\ web.valid) =>
        /\ IsTree(result)
        /\ {web.params[i] : i \in 1..Len(web.params)} = FlatNames(Keys(result))
        /\ \A i, j \in 1..Len(web.params) : web.params[i] = web.params[j] => i = j


====
